---- MODULE Spec2Model ----
(***************************************************************************)
(* Model of the succinct filesystem: the word-packed and the array bit     *)
(* vector, the two-bit wavelet tree, the name sequence, the FLOUDS tree,   *)
(* the inode table, the monotonic allocator and the filesystem manager.    *)
(*                                                                         *)
(* Conventions.  A 64-bit machine word is the set of the positions of its  *)
(* 1-bits (a subset of 0..63).  A query that throws std::out_of_range      *)
(* yields OutOfRange; a mutator is a pair (XThrows, X).  std::vector and   *)
(* the bit positions are 0-based in the source and sequences are 1-based   *)
(* here, so element i of the source is element i + 1 of the sequence.      *)
(***************************************************************************)
EXTENDS Integers, Sequences, FiniteSets, TLC

VARIABLES
    flouds,      \* Flouds: [structure, types, names]
    inodes,      \* ArrayInodeManagerStrategy::inodes
    next_block,  \* BestFitAllocationStrategy::next_block, a block number
    header,      \* FileSystemManager::header
    disk,        \* the image file behind the BlockDevice
    last,        \* the last manager call: kind, arguments (of a call that
                 \* returned), result
    respected,   \* every call so far respected its preconditions or was rejected
    saved,       \* what the manager held when its last save() completed
    abv,         \* ArrayBitVectorStrategy::bits
    wbv,         \* WordBitVectorStrategy: [words, num_bits]
    bvlast,      \* the last bit vector call, applied to abv and wbv in lock-step
    wt,          \* TwoBitWaveletTree: [root, left, right]
    wtd,         \* the symbols inserted, removed and set in a plain list
    wtlast,      \* the last wavelet tree call
    allocs,      \* the allocations handed out by the allocator: [handle, size]
    io,          \* the last call on the allocator or on the content of a file
    mt,          \* the requests that two worker threads of the session are handling
    sv           \* the position and the locals of a save() that runs step by step

vars == <<flouds, inodes, next_block, header, disk, last, respected,
          saved, abv, wbv, bvlast, wt, wtd, wtlast, allocs, io, mt, sv>>

fsvars == <<flouds, inodes, next_block, header, disk, last, respected, saved>>

bvvars == <<abv, wbv, bvlast>>

wtvars == <<wt, wtd, wtlast>>

iovars == <<allocs, io>>

\* what a call on the manager, on the bit vectors, on the wavelet tree, on the
\* allocator leaves alone
outside_fs == <<bvvars, wtvars, iovars, mt, sv>>

outside_bv == <<fsvars, wtvars, iovars, mt, sv>>

outside_wt == <<fsvars, bvvars, iovars, mt, sv>>

outside_alloc == <<flouds, inodes, header, last, respected, saved, bvvars, wtvars, mt, sv>>

outside_mt == <<bvvars, wtvars, iovars, sv>>

----------------------------------------------------------------------------
(* Bounds of the exploration *)

MaxNodes == 4

MaxWords == 2

MaxBVOps == 3

MaxFSNodes == 2

MaxBlocks == 6

MaxZeroAllocs == 1

MaxWTOps == 2

MaxAllocOps == 3

----------------------------------------------------------------------------
(* Machine words *)

WordBits == 64

OutOfRange == -1

\* w << 1
Shl1(w) == {j + 1 : j \in {k \in w : k < WordBits - 1}}

\* w >> 1
Shr1(w) == {j - 1 : j \in w \ {0}}

\* w >> 63
Shr63(w) == IF (WordBits - 1) \in w THEN {0} ELSE {}

\* w << 63
Shl63(w) == IF 0 \in w THEN {WordBits - 1} ELSE {}

\* (1ull << b) - 1, for b < 64
LowMask(b) == 0 .. (b - 1)

\* __builtin_popcountll
Popcount(w) == Cardinality(w)

\* the r-th smallest element of S (1 <= r <= |S|)
NthOf(S, r) == CHOOSE j \in S : Cardinality({k \in S : k <= j}) = r

----------------------------------------------------------------------------
(* WordBitVectorStrategy *)

WCreate(n) ==
    [words |-> [i \in 1 .. ((n + WordBits - 1) \div WordBits) |-> {}],
     num_bits |-> n]

WSize(bv) == bv.num_bits

WSetThrows(bv, position) == position < 0 \/ position >= bv.num_bits

\* the value argument is not used by the source: the bit is or-ed in
WSet(bv, position, value) ==
    LET wi == (position \div WordBits) + 1
    IN  [bv EXCEPT !.words[wi] = @ \cup {position % WordBits}]

WAccess(bv, position) ==
    IF position < 0 \/ position >= bv.num_bits THEN OutOfRange
    ELSE IF (position % WordBits) \in bv.words[(position \div WordBits) + 1]
         THEN 1 ELSE 0

RECURSIVE PopSum(_, _)
\* the loop of rank1: popcounts of words[0 .. k-1]
PopSum(words, k) ==
    IF k = 0 THEN 0 ELSE PopSum(words, k - 1) + Popcount(words[k])

WRank1(bv, position) ==
    IF position < 0 \/ position >= bv.num_bits THEN OutOfRange
    ELSE LET full_words == (position + 1) \div WordBits
             remaining_bits == (position + 1) % WordBits
         IN  PopSum(bv.words, full_words)
             + (IF remaining_bits > 0
                THEN Popcount(bv.words[full_words + 1] \cap LowMask(remaining_bits))
                ELSE 0)

WRank0(bv, position) ==
    IF WRank1(bv, position) = OutOfRange THEN OutOfRange
    ELSE position + 1 - WRank1(bv, position)

\* bits_in_word of the select loops, for the word with 0-based index i
WBitsInWord(bv, i) ==
    IF i = Len(bv.words) - 1
    THEN (IF bv.num_bits % WordBits = 0 THEN WordBits ELSE bv.num_bits % WordBits)
    ELSE WordBits

\* masked_word of the select loops
WMaskedWord(bv, i) ==
    IF i = Len(bv.words) - 1 /\ WBitsInWord(bv, i) < WordBits
    THEN bv.words[i + 1] \cap LowMask(WBitsInWord(bv, i))
    ELSE bv.words[i + 1]

\* the positions of word i that the inner loop of select_b counts
WMatching(bv, i, b) ==
    IF b = 1 THEN WMaskedWord(bv, i) \cap LowMask(WBitsInWord(bv, i))
    ELSE LowMask(WBitsInWord(bv, i)) \ WMaskedWord(bv, i)

\* word_count of the select loops
WWordCount(bv, i, b) ==
    IF b = 1 THEN Popcount(WMaskedWord(bv, i))
    ELSE WBitsInWord(bv, i) - Popcount(WMaskedWord(bv, i))

RECURSIVE WSelectLoop(_, _, _, _, _)
\* the outer loop of select0 / select1 from word i on, count b-bits seen so far
WSelectLoop(bv, n, b, i, count) ==
    IF i >= Len(bv.words) THEN OutOfRange
    ELSE IF count + WWordCount(bv, i, b) >= n
              /\ n - count <= Cardinality(WMatching(bv, i, b))
         THEN i * WordBits + NthOf(WMatching(bv, i, b), n - count)
         ELSE WSelectLoop(bv, n, b, i + 1, count + WWordCount(bv, i, b))

\* n < 0 stands for a size_t that wrapped below zero: larger than any count
WSelect(bv, n, b) ==
    IF n <= 0 THEN OutOfRange ELSE WSelectLoop(bv, n, b, 0, 0)

WSelect0(bv, n) == WSelect(bv, n, 0)

WSelect1(bv, n) == WSelect(bv, n, 1)

WInsertThrows(bv, position) == position < 0 \/ position > bv.num_bits

WInsert(bv, position, value) ==
    LET nb == bv.num_bits + 1
        w0 == IF nb % WordBits = 1 THEN Append(bv.words, {}) ELSE bv.words
        word_index == position \div WordBits
        bit_index == position % WordBits
        mask == LowMask(bit_index)
        high_bits == w0[word_index + 1] \ mask
        low_bits == w0[word_index + 1] \cap mask
    IN  [words |-> [k \in 1 .. Len(w0) |->
                      IF k - 1 > word_index
                      THEN Shl1(w0[k]) \cup Shr63(w0[k - 1])
                      ELSE IF k - 1 = word_index
                      THEN low_bits \cup Shl1(high_bits)
                           \cup (IF value = 1 THEN {bit_index} ELSE {})
                      ELSE w0[k]],
         num_bits |-> nb]

WRemoveThrows(bv, position) == position < 0 \/ position >= bv.num_bits

\* WordBitVectorStrategy::remove that drops the bit carried down from the next word
WRemove_NoCarry(bv, position) ==
    LET w0 == bv.words
        word_index == position \div WordBits
        bit_index == position % WordBits
        mask == LowMask(bit_index)
        w1 == [k \in 1 .. Len(w0) |->
                 IF k - 1 = word_index
                 THEN (w0[k] \cap mask) \cup (Shr1(w0[k]) \ mask)
                 ELSE IF k - 1 > word_index
                 THEN Shr1(w0[k])
                 ELSE w0[k]]
        nb == bv.num_bits - 1
    IN  [words |-> IF nb % WordBits = 0 /\ nb > 0
                   THEN SubSeq(w1, 1, Len(w1) - 1) ELSE w1,
         num_bits |-> nb]

WRemove(bv, position) ==
    LET w0 == bv.words
        word_index == position \div WordBits
        bit_index == position % WordBits
        mask == LowMask(bit_index)
        carry(k) == IF k < Len(w0) THEN Shl63(w0[k + 1]) ELSE {}
        w1 == [k \in 1 .. Len(w0) |->
                 IF k - 1 = word_index
                 THEN (w0[k] \cap mask) \cup (Shr1(w0[k]) \ mask) \cup carry(k)
                 ELSE IF k - 1 > word_index
                 THEN Shr1(w0[k]) \cup carry(k)
                 ELSE w0[k]]
        nb == bv.num_bits - 1
    IN  [words |-> IF nb % WordBits = 0 /\ nb > 0
                   THEN SubSeq(w1, 1, Len(w1) - 1) ELSE w1,
         num_bits |-> nb]

----------------------------------------------------------------------------
(* ArrayBitVectorStrategy *)

ACreate(n) == [i \in 1 .. n |-> 0]

ASize(bits) == Len(bits)

ASetThrows(bits, position) == position < 0 \/ position >= Len(bits)

ASet(bits, position, value) == [bits EXCEPT ![position + 1] = value]

AAccess(bits, position) ==
    IF position < 0 \/ position >= Len(bits) THEN OutOfRange
    ELSE bits[position + 1]

ARank1(bits, position) ==
    IF position < 0 \/ position >= Len(bits) THEN OutOfRange
    ELSE Cardinality({i \in 1 .. position + 1 : bits[i] = 1})

ARank0(bits, position) ==
    IF ARank1(bits, position) = OutOfRange THEN OutOfRange
    ELSE position + 1 - ARank1(bits, position)

ASelect(bits, n, b) ==
    LET hits == {i \in 0 .. Len(bits) - 1 : bits[i + 1] = b}
    IN  IF n <= 0 \/ n > Cardinality(hits) THEN OutOfRange ELSE NthOf(hits, n)

ASelect1(bits, n) == ASelect(bits, n, 1)

ASelect0(bits, n) == ASelect(bits, n, 0)

AInsertThrows(bits, position) == position < 0 \/ position > Len(bits)

AInsert(bits, position, value) ==
    SubSeq(bits, 1, position) \o <<value>> \o SubSeq(bits, position + 1, Len(bits))

ARemoveThrows(bits, position) == position < 0 \/ position >= Len(bits)

ARemove(bits, position) ==
    SubSeq(bits, 1, position) \o SubSeq(bits, position + 2, Len(bits))

----------------------------------------------------------------------------
(* TwoBitWaveletTree over WordBitVectorStrategy *)

RECURSIVE WSetAll(_, _)
\* set(i, true) for every position i of S
WSetAll(bv, S) ==
    IF S = {} THEN bv
    ELSE LET i == CHOOSE x \in S : TRUE
         IN  WSetAll(WSet(bv, i, 1), S \ {i})

\* create_two_bit_wavelet_tree(data, n), data a sequence of symbols
TCreate(data) ==
    LET n == Len(data)
        rightIdx == {i \in 0 .. n - 1 : data[i + 1] >= 2}
        leftIdx == {i \in 0 .. n - 1 : data[i + 1] < 2}
        left_pos(i) == Cardinality({k \in leftIdx : k < i})
        right_pos(i) == Cardinality({k \in rightIdx : k < i})
    IN  [root |-> WSetAll(WCreate(n), rightIdx),
         left |-> WSetAll(WCreate(n - Cardinality(rightIdx)),
                          {left_pos(i) : i \in {k \in leftIdx : data[k + 1] = 1}}),
         right |-> WSetAll(WCreate(Cardinality(rightIdx)),
                           {right_pos(i) : i \in {k \in rightIdx : data[k + 1] = 3}})]

TSize(t) == WSize(t.root)

TAccess(t, position) ==
    IF position < 0 \/ position >= TSize(t) THEN OutOfRange
    ELSE IF WAccess(t.root, position) = 1
         THEN (IF WAccess(t.right, WRank1(t.root, position) - 1) = 1 THEN 3 ELSE 2)
         ELSE (IF WAccess(t.left, WRank0(t.root, position) - 1) = 1 THEN 1 ELSE 0)

TRank(t, symbol, position) ==
    IF position < 0 \/ position >= TSize(t) THEN OutOfRange
    ELSE IF symbol < 2
         THEN LET root_rank == WRank0(t.root, position)
              IN  IF root_rank = 0 THEN 0
                  ELSE IF symbol = 0 THEN WRank0(t.left, root_rank - 1)
                  ELSE WRank1(t.left, root_rank - 1)
         ELSE LET root_rank == WRank1(t.root, position)
              IN  IF root_rank = 0 THEN 0
                  ELSE IF symbol = 2 THEN WRank0(t.right, root_rank - 1)
                  ELSE WRank1(t.right, root_rank - 1)

TSelect(t, symbol, n) ==
    IF n = 0 THEN OutOfRange
    ELSE LET inner == IF symbol = 0 THEN WSelect0(t.left, n)
                      ELSE IF symbol = 1 THEN WSelect1(t.left, n)
                      ELSE IF symbol = 2 THEN WSelect0(t.right, n)
                      ELSE WSelect1(t.right, n)
         IN  IF inner = OutOfRange THEN OutOfRange
             ELSE IF symbol < 2 THEN WSelect0(t.root, inner + 1)
             ELSE WSelect1(t.root, inner + 1)

TInsertThrows(t, position) == position < 0 \/ position > TSize(t)

\* insert with child_pos taken as the rank at position instead of position - 1
TInsert_RankAt(t, position, symbol) ==
    LET child_pos == IF position > 0 /\ position < TSize(t)
                     THEN (IF symbol < 2 THEN WRank0(t.root, position)
                           ELSE WRank1(t.root, position))
                     ELSE IF position > 0
                     THEN (IF symbol < 2 THEN WRank0(t.root, position - 1)
                           ELSE WRank1(t.root, position - 1))
                     ELSE 0
    IN  [root |-> WInsert(t.root, position, IF symbol >= 2 THEN 1 ELSE 0),
         left |-> IF symbol < 2
                  THEN WInsert(t.left, child_pos, IF symbol = 1 THEN 1 ELSE 0)
                  ELSE t.left,
         right |-> IF symbol < 2 THEN t.right
                   ELSE WInsert(t.right, child_pos, IF symbol = 3 THEN 1 ELSE 0)]

TInsert(t, position, symbol) ==
    LET child_pos == IF position > 0
                     THEN (IF symbol < 2 THEN WRank0(t.root, position - 1)
                           ELSE WRank1(t.root, position - 1))
                     ELSE 0
    IN  [root |-> WInsert(t.root, position, IF symbol >= 2 THEN 1 ELSE 0),
         left |-> IF symbol < 2
                  THEN WInsert(t.left, child_pos, IF symbol = 1 THEN 1 ELSE 0)
                  ELSE t.left,
         right |-> IF symbol < 2 THEN t.right
                   ELSE WInsert(t.right, child_pos, IF symbol = 3 THEN 1 ELSE 0)]

TRemoveThrows(t, position) == position < 0 \/ position >= TSize(t)

\* remove taking the bit out of the root only
TRemove_RootOnly(t, position) == [t EXCEPT !.root = WRemove(t.root, position)]

TRemove(t, position) ==
    LET root_bit == WAccess(t.root, position)
        child_pos == IF root_bit = 1 THEN WRank1(t.root, position) - 1
                     ELSE WRank0(t.root, position) - 1
    IN  [root |-> WRemove(t.root, position),
         left |-> IF root_bit = 0 THEN WRemove(t.left, child_pos) ELSE t.left,
         right |-> IF root_bit = 0 THEN t.right ELSE WRemove(t.right, child_pos)]

TSetThrows(t, position) == position < 0 \/ position >= TSize(t)

\* remove(position); insert(position, symbol)
TSet(t, position, symbol) == TInsert(TRemove(t, position), position, symbol)

----------------------------------------------------------------------------
(* ImmerNameSequenceStrategy: a sequence of names, a name a sequence of chars *)

NCreate == <<>>

NSize(names) == Len(names)

NAccess(names, position) == names[position + 1]

NInsertThrows(names, position) == position < 0 \/ position > Len(names)

NInsert(names, position, name) ==
    SubSeq(names, 1, position) \o <<name>> \o SubSeq(names, position + 1, Len(names))

NRemoveThrows(names, position) == position < 0 \/ position >= Len(names)

NRemove(names, position) ==
    SubSeq(names, 1, position) \o SubSeq(names, position + 2, Len(names))

----------------------------------------------------------------------------
(* Flouds: [structure, types, names] *)

RootName == <<114, 111, 111, 116>>

create_flouds ==
    [structure |-> WSet(WCreate(1), 0, 1),
     types |-> TCreate(<<2>>),
     names |-> NInsert(NCreate, 0, RootName)]

FSize(f) == WSize(f.structure)

\* Flouds::parent selecting with the rank itself instead of rank - 1
FParent_NextFolder(f, node_id) ==
    LET parent_folder_index == WRank1(f.structure, node_id)
    IN  IF parent_folder_index = OutOfRange THEN OutOfRange
        ELSE TSelect(f.types, 1, parent_folder_index)

\* Flouds::parent
FParent(f, node_id) ==
    LET parent_folder_index == WRank1(f.structure, node_id)
    IN  IF parent_folder_index = OutOfRange THEN OutOfRange
        ELSE TSelect(f.types, 1, parent_folder_index - 1)

\* Flouds::children_count
FChildrenCount(f, node_id) ==
    IF TAccess(f.types, node_id) = OutOfRange THEN OutOfRange
    ELSE IF TAccess(f.types, node_id) = 2 THEN 0
    ELSE LET folder_index == TRank(f.types, 1, node_id) + 1
             start == WSelect1(f.structure, folder_index)
             total_folders == WRank1(f.structure, WSize(f.structure) - 1)
         IN  IF start = OutOfRange \/ total_folders = OutOfRange THEN OutOfRange
             ELSE IF folder_index + 1 <= total_folders
                  THEN WSelect1(f.structure, folder_index + 1) - start
                  ELSE WSize(f.structure) - start

\* Flouds::child
FChild(f, node_id, child_index) ==
    IF TRank(f.types, 1, node_id) = OutOfRange THEN OutOfRange
    ELSE LET start == WSelect1(f.structure, TRank(f.types, 1, node_id) + 1)
         IN  IF start = OutOfRange THEN OutOfRange ELSE start + child_index

\* Flouds::get_name
FGetName(f, node_id) == NAccess(f.names, node_id)

\* Flouds::is_folder
FIsFolder(f, node_id) == TAccess(f.types, node_id) \in {1, 2}

\* Flouds::is_file
FIsFile(f, node_id) == TAccess(f.types, node_id) = 0

\* Flouds::is_empty_folder
FIsEmptyFolder(f, node_id) == TAccess(f.types, node_id) = 2

\* the steps of Flouds::insert after insert_pos is known
FInsertAt(f, types1, insert_pos, was_empty, name, is_folder) ==
    IF WInsertThrows(f.structure, insert_pos)
    THEN [f |-> [f EXCEPT !.types = types1], thrown |-> TRUE, ret |-> 0]
    ELSE [f |-> [structure |-> WInsert(f.structure, insert_pos, IF was_empty THEN 1 ELSE 0),
                 names |-> NInsert(f.names, insert_pos, name),
                 types |-> TInsert(types1, insert_pos, IF is_folder THEN 2 ELSE 0)],
          thrown |-> FALSE, ret |-> insert_pos]

\* Flouds::insert placing the new node in front of the children of its parent
FInsert_Front(f, parent_id, name, is_folder) ==
    IF TAccess(f.types, parent_id) = OutOfRange
    THEN [f |-> f, thrown |-> TRUE, ret |-> 0]
    ELSE LET was_empty == FIsEmptyFolder(f, parent_id)
             children_count == IF was_empty THEN 0 ELSE FChildrenCount(f, parent_id)
             types1 == IF was_empty THEN TSet(f.types, parent_id, 1) ELSE f.types
             parent_folder_index == TRank(types1, 1, parent_id) + 1
             sel == WSelect1(f.structure, parent_folder_index)
             insert_pos == IF sel = OutOfRange
                           THEN WSize(f.structure) + children_count
                           ELSE sel
         IN  IF children_count = OutOfRange
             THEN [f |-> f, thrown |-> TRUE, ret |-> 0]
             ELSE FInsertAt(f, types1, insert_pos, was_empty, name, is_folder)

\* Flouds::insert: the resulting Flouds, whether it threw, the returned index
FInsert(f, parent_id, name, is_folder) ==
    IF TAccess(f.types, parent_id) = OutOfRange
    THEN [f |-> f, thrown |-> TRUE, ret |-> 0]
    ELSE LET was_empty == FIsEmptyFolder(f, parent_id)
             children_count == IF was_empty THEN 0 ELSE FChildrenCount(f, parent_id)
             types1 == IF was_empty THEN TSet(f.types, parent_id, 1) ELSE f.types
             parent_folder_index == TRank(types1, 1, parent_id) + 1
             sel == WSelect1(f.structure, parent_folder_index)
             insert_pos == IF sel = OutOfRange
                           THEN WSize(f.structure) + children_count
                           ELSE sel + children_count
         IN  IF children_count = OutOfRange
             THEN [f |-> f, thrown |-> TRUE, ret |-> 0]
             ELSE FInsertAt(f, types1, insert_pos, was_empty, name, is_folder)

\* the fix-up that never turns the parent into an empty folder
FRemoveFixup_KeepType(f1, node_id, parent_index, parent_children_before, was_first_child) ==
    IF parent_children_before = 1
    THEN [f |-> f1, thrown |-> FALSE]
    ELSE IF was_first_child = 1
    THEN IF WSetThrows(f1.structure, node_id)
         THEN [f |-> f1, thrown |-> TRUE]
         ELSE [f |-> [f1 EXCEPT !.structure = WSet(f1.structure, node_id, 1)],
               thrown |-> FALSE]
    ELSE [f |-> f1, thrown |-> FALSE]

\* the fix-up that does not hand the first-child mark to the next sibling
FRemoveFixup_NoMark(f1, node_id, parent_index, parent_children_before, was_first_child) ==
    IF parent_children_before = 1
    THEN IF TSetThrows(f1.types, parent_index)
         THEN [f |-> f1, thrown |-> TRUE]
         ELSE [f |-> [f1 EXCEPT !.types = TSet(f1.types, parent_index, 2)],
               thrown |-> FALSE]
    ELSE [f |-> f1, thrown |-> FALSE]

\* the steps of Flouds::remove after the three sequences lost position node_id
FRemoveFixup(f1, node_id, parent_index, parent_children_before, was_first_child) ==
    IF parent_children_before = 1
    THEN IF TSetThrows(f1.types, parent_index)
         THEN [f |-> f1, thrown |-> TRUE]
         ELSE [f |-> [f1 EXCEPT !.types = TSet(f1.types, parent_index, 2)],
               thrown |-> FALSE]
    ELSE IF was_first_child = 1
    THEN IF WSetThrows(f1.structure, node_id)
         THEN [f |-> f1, thrown |-> TRUE]
         ELSE [f |-> [f1 EXCEPT !.structure = WSet(f1.structure, node_id, 1)],
               thrown |-> FALSE]
    ELSE [f |-> f1, thrown |-> FALSE]

\* Flouds::remove: the resulting Flouds and whether it threw
FRemove(f, node_id) ==
    LET parent_index == FParent(f, node_id)
        parent_children_before == FChildrenCount(f, parent_index)
        was_first_child == WAccess(f.structure, node_id)
        f1 == [structure |-> WRemove(f.structure, node_id),
               names |-> NRemove(f.names, node_id),
               types |-> TRemove(f.types, node_id)]
    IN  IF parent_index = OutOfRange \/ parent_children_before = OutOfRange
        THEN [f |-> f, thrown |-> TRUE]
        ELSE FRemoveFixup(f1, node_id, parent_index, parent_children_before,
                          was_first_child)

\* the character '/'
Slash == 47

RECURSIVE FPathLoop(_, _, _, _)
\* the while loop of Flouds::path: current node, start offset in the string
FPathLoop(f, path, current, start) ==
    IF start >= Len(path) THEN current
    ELSE LET slashes == {k \in start .. Len(path) - 1 : path[k + 1] = Slash}
             end == IF slashes = {} THEN Len(path)
                    ELSE CHOOSE k \in slashes : \A l \in slashes : k <= l
             component == SubSeq(path, start + 1, end)
             children_count == FChildrenCount(f, current)
             first_child == FChild(f, current, 0)
             last_child == FChild(f, current, children_count - 1)
             hits == {i \in first_child .. last_child :
                         i < NSize(f.names) /\ FGetName(f, i) = component}
         IN  IF children_count = OutOfRange \/ children_count = 0 THEN OutOfRange
             ELSE IF first_child = OutOfRange THEN OutOfRange
             ELSE IF hits = {} THEN OutOfRange
             ELSE FPathLoop(f, path, CHOOSE i \in hits : \A l \in hits : i <= l, end + 1)

\* Flouds::path: the node the path names, OutOfRange when it throws
FPath(f, path) == IF path = <<Slash>> THEN 0 ELSE FPathLoop(f, path, 0, 1)

----------------------------------------------------------------------------
(* size_t values in memory and on disk.  A count, a length or a size is a  *)
(* natural number below 2^31.  A block number is [hi, lo] and stands for   *)
(* hi * 2^52 + lo, with hi taken modulo 2^12 as 64-bit arithmetic does and *)
(* lo below 2^31: allocate(0) advances next_block by 2^52 blocks.          *)

BlockSize == 4096

\* 2^64 / 2^52
HiWrap == 4096

Blk(hi, lo) == [hi |-> hi, lo |-> lo]

ZeroBlk == Blk(0, 0)

\* a + b on size_t
BlkAdd(a, b) == Blk((a.hi + b.hi) % HiWrap, a.lo + b.lo)

\* a <= b on size_t
BlkLeq(a, b) == a.hi < b.hi \/ (a.hi = b.hi /\ a.lo <= b.lo)

\* memcpy of a size_t below 2^31: 8 bytes, little-endian
U64Bytes(n) == [i \in 1 .. 8 |-> IF i <= 4 THEN (n \div 256 ^ (i - 1)) % 256 ELSE 0]

\* memcpy of a uint32_t below 2^31
U32Bytes(n) == [i \in 1 .. 4 |-> (n \div 256 ^ (i - 1)) % 256]

\* the size_t below 2^31 held by 8 bytes
U64Value(s) == s[1] + 256 * s[2] + 65536 * s[3] + 16777216 * s[4]

U32Value(s) == s[1] + 256 * s[2] + 65536 * s[3] + 16777216 * s[4]

\* memcpy of a block number: bits 52..63 lie in the high nibble of byte 6
\* and in byte 7
BlkBytes(b) ==
    [i \in 1 .. 8 |-> IF i <= 4 THEN (b.lo \div 256 ^ (i - 1)) % 256
                      ELSE IF i = 7 THEN (b.hi % 16) * 16
                      ELSE IF i = 8 THEN b.hi \div 16
                      ELSE 0]

BlkValue(s) == Blk((s[7] \div 16) + 16 * s[8], U64Value(s))

\* memcpy of a 64-bit word
WordBytes(w) ==
    [i \in 1 .. 8 |->
        LET bit(k) == IF (8 * (i - 1) + k) \in w THEN 2 ^ k ELSE 0
        IN  bit(0) + bit(1) + bit(2) + bit(3) + bit(4) + bit(5) + bit(6) + bit(7)]

\* the word read with its bytes in the reverse order
WordValue_BigEndian(s) == {j \in 0 .. WordBits - 1 : (s[8 - (j \div 8)] \div 2 ^ (j % 8)) % 2 = 1}

\* the 64-bit word held by 8 bytes
WordValue(s) == {j \in 0 .. WordBits - 1 : (s[(j \div 8) + 1] \div 2 ^ (j % 8)) % 2 = 1}

\* buffer + offset, n bytes
Bytes(buffer, offset, n) == SubSeq(buffer, offset + 1, offset + n)

RECURSIVE Flatten(_)
Flatten(ss) == IF ss = <<>> THEN <<>> ELSE Head(ss) \o Flatten(Tail(ss))

----------------------------------------------------------------------------
(* serialize / deserialize / get_serialized_size of the components.  A     *)
(* deserialize yields the value read and the offset behind it.             *)

\* WordBitVectorStrategy::get_serialized_size
WSerializedSize(bv) == 8 + ((bv.num_bits + 63) \div 64) * 8

\* WordBitVectorStrategy::serialize
WSerialize(bv) ==
    U64Bytes(bv.num_bits)
    \o Flatten([i \in 1 .. (bv.num_bits + 63) \div 64 |-> WordBytes(bv.words[i])])

\* WordBitVectorStrategy::deserialize
WDeserialize(buffer, offset) ==
    LET size == U64Value(Bytes(buffer, offset, 8))
        num_words == (size + 63) \div 64
    IN  [val |-> [words |-> [i \in 1 .. num_words |->
                                 WordValue(Bytes(buffer, offset + 8 * i, 8))],
                  num_bits |-> size],
         offset |-> offset + 8 + 8 * num_words]

\* TwoBitWaveletTree::get_serialized_size
TSerializedSize(t) ==
    WSerializedSize(t.root) + WSerializedSize(t.left) + WSerializedSize(t.right)

\* TwoBitWaveletTree::serialize
TSerialize(t) == WSerialize(t.root) \o WSerialize(t.left) \o WSerialize(t.right)

\* TwoBitWaveletTree::deserialize
TDeserialize(buffer, offset) ==
    LET r == WDeserialize(buffer, offset)
        l == WDeserialize(buffer, r.offset)
        g == WDeserialize(buffer, l.offset)
    IN  [val |-> [root |-> r.val, left |-> l.val, right |-> g.val], offset |-> g.offset]

RECURSIVE NSerializedSize(_)
\* ImmerNameSequenceStrategy::get_serialized_size
NSerializedSize(names) ==
    IF names = <<>> THEN 8
    ELSE NSerializedSize(SubSeq(names, 1, Len(names) - 1)) + 8 + Len(names[Len(names)])

\* ImmerNameSequenceStrategy::serialize
NSerialize(names) ==
    U64Bytes(Len(names))
    \o Flatten([i \in 1 .. Len(names) |-> U64Bytes(Len(names[i])) \o names[i]])

RECURSIVE NDeserializeLoop(_, _, _, _)
\* the loop of ImmerNameSequenceStrategy::deserialize with i names still to read
NDeserializeLoop(buffer, offset, i, names) ==
    IF i = 0 THEN [val |-> names, offset |-> offset]
    ELSE LET name_length == U64Value(Bytes(buffer, offset, 8))
         IN  NDeserializeLoop(buffer, offset + 8 + name_length, i - 1,
                              Append(names, Bytes(buffer, offset + 8, name_length)))

\* ImmerNameSequenceStrategy::deserialize
NDeserialize(buffer, offset) ==
    NDeserializeLoop(buffer, offset + 8, U64Value(Bytes(buffer, offset, 8)), <<>>)

\* Flouds::get_serialized_size
FSerializedSize(f) ==
    WSerializedSize(f.structure) + TSerializedSize(f.types) + NSerializedSize(f.names)

\* Flouds::serialize
FSerialize(f) == WSerialize(f.structure) \o TSerialize(f.types) \o NSerialize(f.names)

\* Flouds::deserialize
FDeserialize(buffer, offset) ==
    LET st == WDeserialize(buffer, offset)
        ty == TDeserialize(buffer, st.offset)
        na == NDeserialize(buffer, ty.offset)
    IN  [val |-> [structure |-> st.val, types |-> ty.val, names |-> na.val],
         offset |-> na.offset]

\* sizeof(Inode)
InodeBytes == 48

\* the object representation of an Inode: three size_t / time_t pairs around
\* the uint32_t mode and its 4 bytes of padding
InodeSerialize(ino) ==
    BlkBytes(ino.allocation_handle) \o U64Bytes(ino.size)
    \o U32Bytes(ino.mode) \o <<0, 0, 0, 0>>
    \o U64Bytes(ino.modification_time) \o U64Bytes(ino.access_time)
    \o U64Bytes(ino.creation_time)

InodeDeserialize(s) ==
    [allocation_handle |-> BlkValue(Bytes(s, 0, 8)),
     size |-> U64Value(Bytes(s, 8, 8)),
     mode |-> U32Value(Bytes(s, 16, 4)),
     modification_time |-> U64Value(Bytes(s, 24, 8)),
     access_time |-> U64Value(Bytes(s, 32, 8)),
     creation_time |-> U64Value(Bytes(s, 40, 8))]

\* ArrayInodeManagerStrategy::get_serialized_size
ISerializedSize(tbl) == 8 + Len(tbl) * InodeBytes

\* ArrayInodeManagerStrategy::serialize
ISerialize(tbl) ==
    U64Bytes(Len(tbl)) \o Flatten([i \in 1 .. Len(tbl) |-> InodeSerialize(tbl[i])])

\* ArrayInodeManagerStrategy::deserialize
IDeserialize(buffer, offset) ==
    LET num_inodes == U64Value(Bytes(buffer, offset, 8))
    IN  [val |-> [i \in 1 .. num_inodes |->
                     InodeDeserialize(Bytes(buffer, offset + 8 + (i - 1) * InodeBytes,
                                            InodeBytes))],
         offset |-> offset + 8 + num_inodes * InodeBytes]

\* BestFitAllocationStrategy::get_serialized_size
AllocSerializedSize == 8

\* BestFitAllocationStrategy::serialize
AllocSerialize(nb) == BlkBytes(nb)

\* BestFitAllocationStrategy::deserialize
AllocDeserialize(buffer, offset) ==
    [val |-> BlkValue(Bytes(buffer, offset, 8)), offset |-> offset + 8]

----------------------------------------------------------------------------
(* BlockDevice: the image file, a function from the block index to the     *)
(* block, a block a function from the offsets that were written to bytes.  *)

\* a byte of the file that no write defined
Unwritten == 256

\* block_index * block_size wraps at 2^64: the hi part of a block number
\* does not reach lseek
FileBlock(b) == b.lo

\* BlockDevice::read_block
read_block(d, block_index) ==
    IF FileBlock(block_index) \in DOMAIN d THEN d[FileBlock(block_index)] ELSE <<>>

\* BlockDevice::write_block
write_block(d, block_index, block) ==
    [b \in DOMAIN d \cup {FileBlock(block_index)} |->
        IF b = FileBlock(block_index) THEN block ELSE d[b]]

\* temp[o]
ByteAt(block, o) == IF o \in DOMAIN block THEN block[o] ELSE Unwritten

\* the file that BlockDevice() creates when the path is absent: one block
\* of zeros
FreshImage == [b \in {0} |-> [o \in 0 .. BlockSize - 1 |-> 0]]

----------------------------------------------------------------------------
(* BestFitAllocationStrategy *)

\* 1 + (size - 1) / block_size on size_t: size 0 wraps to 2^64 - 1
NumBlocks(size) ==
    IF size = 0 THEN Blk(1, 0) ELSE Blk(0, 1 + (size - 1) \div BlockSize)

\* BestFitAllocationStrategy::allocate: the handle and the new next_block
allocate(nb, size) == [handle |-> nb, next_block |-> BlkAdd(nb, NumBlocks(size))]

\* BestFitAllocationStrategy::resize
resize(nb, handle, old_size, new_size) ==
    IF old_size = 0 \/ handle = ZeroBlk THEN allocate(nb, new_size)
    ELSE IF BlkLeq(NumBlocks(new_size), NumBlocks(old_size))
         THEN [handle |-> handle, next_block |-> nb]
         ELSE allocate(nb, new_size)

Min(a, b) == IF a < b THEN a ELSE b

RECURSIVE AllocReadLoop(_, _, _, _, _)
\* the loop of BestFitAllocationStrategy::read: the bytes from bytes_read on
AllocReadLoop(d, handle, size, offset, bytes_read) ==
    IF bytes_read >= size THEN <<>>
    ELSE LET current_offset == offset + bytes_read
             block_index == BlkAdd(handle, Blk(0, current_offset \div BlockSize))
             block_offset == current_offset % BlockSize
             to_read == Min(size - bytes_read, BlockSize - block_offset)
             temp == read_block(d, block_index)
         IN  [i \in 1 .. to_read |-> ByteAt(temp, block_offset + i - 1)]
             \o AllocReadLoop(d, handle, size, offset, bytes_read + to_read)

\* BestFitAllocationStrategy::read
AllocRead(d, handle, size, offset) == AllocReadLoop(d, handle, size, offset, 0)

RECURSIVE AllocWriteLoop(_, _, _, _, _, _)
\* the loop of BestFitAllocationStrategy::write: the image after the blocks
\* from bytes_written on are read, patched and written back
AllocWriteLoop(d, handle, buffer, size, offset, bytes_written) ==
    IF bytes_written >= size THEN d
    ELSE LET current_offset == offset + bytes_written
             block_index == BlkAdd(handle, Blk(0, current_offset \div BlockSize))
             block_offset == current_offset % BlockSize
             to_write == Min(size - bytes_written, BlockSize - block_offset)
             temp == IF block_offset # 0 \/ to_write < BlockSize
                     THEN read_block(d, block_index) ELSE <<>>
             patched == [o \in DOMAIN temp \cup (block_offset .. block_offset + to_write - 1) |->
                            IF o >= block_offset /\ o < block_offset + to_write
                            THEN buffer[bytes_written + (o - block_offset) + 1]
                            ELSE temp[o]]
         IN  AllocWriteLoop(write_block(d, block_index, patched), handle, buffer, size,
                            offset, bytes_written + to_write)

\* write starting at the beginning of the allocation whatever the offset
AllocWrite_IgnoreOffset(d, handle, buffer, size, offset) ==
    AllocWriteLoop(d, handle, buffer, size, 0, 0)

\* BestFitAllocationStrategy::write
AllocWrite(d, handle, buffer, size, offset) ==
    AllocWriteLoop(d, handle, buffer, size, offset, 0)

----------------------------------------------------------------------------
(* ArrayInodeManagerStrategy: a sequence of Inode records *)

\* Inode{}
ZeroInode ==
    [allocation_handle |-> ZeroBlk, size |-> 0, mode |-> 0,
     modification_time |-> 0, access_time |-> 0, creation_time |-> 0]

\* insert_inode appending the new record instead of inserting it at inode
insert_inode_Append(tbl, inode) == Append(tbl, ZeroInode)

\* ArrayInodeManagerStrategy::insert_inode
insert_inode(tbl, inode) ==
    SubSeq(tbl, 1, inode) \o <<ZeroInode>> \o SubSeq(tbl, inode + 1, Len(tbl))

\* ArrayInodeManagerStrategy::remove_inode
remove_inode(tbl, inode) ==
    SubSeq(tbl, 1, inode) \o SubSeq(tbl, inode + 2, Len(tbl))

\* ArrayInodeManagerStrategy::get_inode
get_inode(tbl, inode) == tbl[inode + 1]

----------------------------------------------------------------------------
(* FileSystemManager: the header, save() and mount().  A manager is the    *)
(* record [flouds, inodes, next_block, header, disk].                      *)

\* "FLOUDS"
Magic == <<70, 76, 79, 85, 68, 83>>

\* sizeof(FloudsHeader)
HeaderBytes == 56

\* the header of mount() for an image without the magic string
NewHeader ==
    [magic |-> Magic,
     allocation_manager_handle |-> ZeroBlk, allocation_manager_size |-> 0,
     flouds_handle |-> ZeroBlk, flouds_size |-> 0,
     inode_manager_handle |-> ZeroBlk, inode_manager_size |-> 0]

\* the object representation of a FloudsHeader: magic, 2 bytes of padding
\* that memset zeroed, six size_t
HeaderSerialize(h) ==
    h.magic \o <<0, 0>>
    \o BlkBytes(h.allocation_manager_handle) \o U64Bytes(h.allocation_manager_size)
    \o BlkBytes(h.flouds_handle) \o U64Bytes(h.flouds_size)
    \o BlkBytes(h.inode_manager_handle) \o U64Bytes(h.inode_manager_size)

\* memcpy(&header, buffer, sizeof(FloudsHeader))
HeaderDeserialize(s) ==
    [magic |-> Bytes(s, 0, 6),
     allocation_manager_handle |-> BlkValue(Bytes(s, 8, 8)),
     allocation_manager_size |-> U64Value(Bytes(s, 16, 8)),
     flouds_handle |-> BlkValue(Bytes(s, 24, 8)),
     flouds_size |-> U64Value(Bytes(s, 32, 8)),
     inode_manager_handle |-> BlkValue(Bytes(s, 40, 8)),
     inode_manager_size |-> U64Value(Bytes(s, 48, 8))]

\* allocate for a component without a handle, resize otherwise
SaveHandle(nb, handle, old_size, new_size) ==
    IF handle = ZeroBlk THEN allocate(nb, new_size)
    ELSE resize(nb, handle, old_size, new_size)

\* FileSystemManager::save.  get_serialized_size of the allocator is the
\* same number before and after its own allocation, so the loop that
\* waits for it to settle runs no iteration.  write_block(0, &header)
\* defines the first sizeof(FloudsHeader) bytes of block 0; the rest of the
\* block is whatever follows the header in memory.
save(m) ==
    LET flouds_size == FSerializedSize(m.flouds)
        fl == SaveHandle(m.next_block, m.header.flouds_handle, m.header.flouds_size,
                         flouds_size)
        d1 == AllocWrite(m.disk, fl.handle, FSerialize(m.flouds), flouds_size, 0)
        inode_manager_size == ISerializedSize(m.inodes)
        im == SaveHandle(fl.next_block, m.header.inode_manager_handle,
                         m.header.inode_manager_size, inode_manager_size)
        d2 == AllocWrite(d1, im.handle, ISerialize(m.inodes), inode_manager_size, 0)
        allocation_manager_size == AllocSerializedSize
        am == SaveHandle(im.next_block, m.header.allocation_manager_handle,
                         m.header.allocation_manager_size, allocation_manager_size)
        d3 == AllocWrite(d2, am.handle, AllocSerialize(am.next_block),
                         allocation_manager_size, 0)
        header1 == [m.header EXCEPT
                      !.flouds_handle = fl.handle,
                      !.flouds_size = flouds_size,
                      !.allocation_manager_handle = am.handle,
                      !.allocation_manager_size = allocation_manager_size,
                      !.inode_manager_handle = im.handle,
                      !.inode_manager_size = inode_manager_size]
    IN  [flouds |-> m.flouds, inodes |-> m.inodes, next_block |-> am.next_block,
         header |-> header1,
         disk |-> write_block(d3, ZeroBlk,
                              [o \in 0 .. HeaderBytes - 1 |->
                                  HeaderSerialize(header1)[o + 1]])]

\* the number of write_block calls of allocation_manager->write(h, b, size, 0)
BlockWrites(size) == (size + BlockSize - 1) \div BlockSize

\* the image after the first n write_block calls of
\* allocation_manager->write(handle, buffer, size, 0): every call but the
\* last one of the loop writes a whole block
AllocWritePrefix(d, handle, buffer, size, n) ==
    AllocWrite(d, handle, buffer, Min(size, n * BlockSize), 0)

\* the write_block calls of save(): FLOUDS, inode table, allocator, block 0
SaveBlockWrites(m) ==
    BlockWrites(FSerializedSize(m.flouds)) + BlockWrites(ISerializedSize(m.inodes))
        + BlockWrites(AllocSerializedSize) + 1

\* the image that save() leaves when it stops after its first n write_block
\* calls
SavePrefix(m, n) ==
    LET flouds_size == FSerializedSize(m.flouds)
        fl == SaveHandle(m.next_block, m.header.flouds_handle, m.header.flouds_size,
                         flouds_size)
        n1 == BlockWrites(flouds_size)
        d1 == AllocWritePrefix(m.disk, fl.handle, FSerialize(m.flouds), flouds_size,
                               Min(n, n1))
        inode_manager_size == ISerializedSize(m.inodes)
        im == SaveHandle(fl.next_block, m.header.inode_manager_handle,
                         m.header.inode_manager_size, inode_manager_size)
        n2 == BlockWrites(inode_manager_size)
        d2 == IF n <= n1 THEN d1
              ELSE AllocWritePrefix(d1, im.handle, ISerialize(m.inodes),
                                    inode_manager_size, Min(n - n1, n2))
        allocation_manager_size == AllocSerializedSize
        am == SaveHandle(im.next_block, m.header.allocation_manager_handle,
                         m.header.allocation_manager_size, allocation_manager_size)
        n3 == BlockWrites(allocation_manager_size)
        d3 == IF n <= n1 + n2 THEN d2
              ELSE AllocWritePrefix(d2, am.handle, AllocSerialize(am.next_block),
                                    allocation_manager_size, Min(n - n1 - n2, n3))
    IN  IF n <= n1 + n2 + n3 THEN d3 ELSE save(m).disk

\* FileSystemManager::mount of the image d by a fresh FileSystemManager
mount(d) ==
    LET buffer == read_block(d, ZeroBlk)
    IN  IF [i \in 1 .. 6 |-> ByteAt(buffer, i - 1)] # Magic
        THEN save([flouds |-> create_flouds, inodes |-> insert_inode(<<>>, 0),
                   next_block |-> Blk(0, 1), header |-> NewHeader, disk |-> d])
        ELSE LET h == HeaderDeserialize([i \in 1 .. HeaderBytes |-> ByteAt(buffer, i - 1)])
             IN  [flouds |-> FDeserialize(AllocRead(d, h.flouds_handle, h.flouds_size, 0),
                                          0).val,
                  inodes |-> IDeserialize(AllocRead(d, h.inode_manager_handle,
                                                    h.inode_manager_size, 0), 0).val,
                  next_block |-> AllocDeserialize(
                                    AllocRead(d, h.allocation_manager_handle,
                                              h.allocation_manager_size, 0), 0).val,
                  header |-> h,
                  disk |-> d]

\* the bytes a deserialize may read behind the end of its buffer
HeapLen == 64

\* FileSystemManager::mount of a valid image whose components are read into
\* buffers of the sizes the header names, with the bytes heap behind each
MountHeap(d, heap) ==
    LET buffer == read_block(d, ZeroBlk)
        h == HeaderDeserialize([i \in 1 .. HeaderBytes |-> ByteAt(buffer, i - 1)])
    IN  [flouds |-> FDeserialize(AllocRead(d, h.flouds_handle, h.flouds_size, 0) \o heap,
                                 0).val,
         inodes |-> IDeserialize(AllocRead(d, h.inode_manager_handle,
                                           h.inode_manager_size, 0) \o heap, 0).val,
         next_block |-> AllocDeserialize(
                           AllocRead(d, h.allocation_manager_handle,
                                     h.allocation_manager_size, 0) \o heap, 0).val,
         header |-> h,
         disk |-> d]

\* a deserialize of mount runs over the end of its buffer: the image holds
\* a component that is longer than the header says
MountOverreads(d) ==
    LET buffer == read_block(d, ZeroBlk)
        h == HeaderDeserialize([i \in 1 .. HeaderBytes |-> ByteAt(buffer, i - 1)])
        zeros == [i \in 1 .. HeapLen |-> 0]
    IN  \/ FDeserialize(AllocRead(d, h.flouds_handle, h.flouds_size, 0) \o zeros,
                        0).offset > h.flouds_size
        \/ IDeserialize(AllocRead(d, h.inode_manager_handle, h.inode_manager_size, 0)
                           \o zeros, 0).offset > h.inode_manager_size

\* structure bits, types and names in order, inode records and next_block
\* of a manager, with the value of respected that goes with them
Snapshot(m, r) ==
    [structure |-> [i \in 1 .. WSize(m.flouds.structure) |->
                       WAccess(m.flouds.structure, i - 1)],
     types |-> [i \in 1 .. TSize(m.flouds.types) |-> TAccess(m.flouds.types, i - 1)],
     names |-> m.flouds.names,
     inodes |-> m.inodes,
     next_block |-> m.next_block,
     respected |-> r]

----------------------------------------------------------------------------
(* FileSystemManager: the calls on the mounted manager *)

\* the nodes the callers make: the file "a" with mode 0644 and the folder
\* "bc" with mode 0755
Entries ==
    {[name |-> <<97>>, is_folder |-> FALSE, mode |-> 420],
     [name |-> <<98, 99>>, is_folder |-> TRUE, mode |-> 493]}

\* no bit vector of f holds more than MaxWords words: the words vector of a
\* WordBitVectorStrategy grows by one each time the vector regrows from size 0
FWordsBounded(f) ==
    \A bv \in {f.structure, f.types.root, f.types.left, f.types.right} :
        Len(bv.words) <= MaxWords

\* FileSystemManager::add_node
AddNode(parent_inode, name, is_folder, mode) ==
    /\ FSize(flouds) < MaxNodes
    /\ Len(inodes) < MaxNodes
    /\ parent_inode <= FSize(flouds)
    /\ parent_inode < FSize(flouds) => FIsFolder(flouds, parent_inode)
    /\ \E r \in {FInsert(flouds, parent_inode, name, is_folder)} :
           /\ FWordsBounded(r.f)
           /\ flouds' = r.f
           /\ inodes' = IF r.thrown THEN inodes
                        ELSE [insert_inode(inodes, r.ret) EXCEPT ![r.ret + 1].mode = mode]
           /\ last' = IF r.thrown
                      THEN [kind |-> "add_node", arg |-> parent_inode, name |-> <<>>,
                            is_folder |-> FALSE, mode |-> 0, thrown |-> TRUE, ret |-> 0]
                      ELSE [kind |-> "add_node", arg |-> parent_inode, name |-> name,
                            is_folder |-> is_folder, mode |-> mode,
                            thrown |-> FALSE, ret |-> r.ret]
           /\ respected' = (respected /\ (parent_inode < FSize(flouds)
                                           \/ (r.thrown /\ r.f = flouds)))
    /\ UNCHANGED <<next_block, header, disk, saved>>
    /\ UNCHANGED outside_fs

\* FileSystemManager::remove_node
RemoveNode(inode) ==
    /\ inode <= FSize(flouds)
    /\ \E r \in {FRemove(flouds, inode)} :
           /\ FWordsBounded(r.f)
           /\ flouds' = r.f
           /\ inodes' = IF r.thrown THEN inodes ELSE remove_inode(inodes, inode)
           /\ last' = [kind |-> "remove_node", arg |-> inode, name |-> <<>>,
                       is_folder |-> FALSE, mode |-> 0,
                       thrown |-> r.thrown, ret |-> 0]
           /\ respected' = (respected /\ ((/\ inode > 0 /\ inode < FSize(flouds)
                                            /\ TAccess(flouds.types, inode) \in {0, 2})
                                           \/ (r.thrown /\ r.f = flouds)))
    /\ UNCHANGED <<next_block, header, disk, saved>>
    /\ UNCHANGED outside_fs

\* save() stops after n of its write_block calls (the process is gone), and
\* a fresh FileSystemManager mounts the image that is left
\* Where a deserialize of that mount reads behind its buffer the behaviour
\* is undefined: the mount ends the process (thrown; the variables keep the
\* values of the manager that is gone) or goes on with the bytes it finds
InterruptedSave(n) ==
    /\ n < SaveBlockWrites([flouds |-> flouds, inodes |-> inodes])
    /\ \E d \in {SavePrefix([flouds |-> flouds, inodes |-> inodes,
                              next_block |-> next_block, header |-> header,
                              disk |-> disk], n)} :
         \E ok \in IF MountOverreads(d) THEN BOOLEAN ELSE {TRUE} :
           /\ disk' = d
           /\ IF ok
              THEN \E r \in {IF MountOverreads(d)
                              THEN MountHeap(d, [i \in 1 .. HeapLen |-> 0])
                              ELSE mount(d)} :
                     /\ flouds' = r.flouds
                     /\ inodes' = r.inodes
                     /\ next_block' = r.next_block
                     /\ header' = r.header
              ELSE UNCHANGED <<flouds, inodes, next_block, header>>
           /\ last' = [kind |-> "interrupted_save", arg |-> n, name |-> <<>>,
                       is_folder |-> FALSE, mode |-> 0, thrown |-> ~ok, ret |-> 0]
    /\ respected' = saved.respected
    /\ UNCHANGED saved
    /\ UNCHANGED outside_fs

\* the sizes the callers pass to set_file_size: empty, two blocks
FileSizes == {0, BlockSize + 1}

\* FileSystemManager::set_file_size, called for files as flouds_setattr does
SetFileSize(inode, size) ==
    /\ inode < FSize(flouds)
    /\ inode < Len(inodes)
    /\ FIsFile(flouds, inode)
    /\ \E r \in {resize(next_block, get_inode(inodes, inode).allocation_handle,
                         get_inode(inodes, inode).size, size)} :
           /\ r.next_block.lo <= MaxBlocks
           /\ r.next_block.hi <= MaxZeroAllocs
           /\ inodes' = [inodes EXCEPT ![inode + 1].allocation_handle = r.handle,
                                        ![inode + 1].size = size]
           /\ next_block' = r.next_block
    /\ last' = [kind |-> "set_file_size", arg |-> inode, name |-> <<>>,
                is_folder |-> FALSE, mode |-> 0, thrown |-> FALSE, ret |-> size]
    /\ UNCHANGED <<flouds, header, disk, respected, saved>>
    /\ UNCHANGED outside_fs

\* the values std::time(nullptr) returns
Times == {1}

\* the (offset, length) pairs passed to read_file and write_file
FileShapes ==
    {[offset |-> 0, len |-> 1], [offset |-> 1, len |-> 2],
     [offset |-> BlockSize - 1, len |-> 2], [offset |-> BlockSize + 1, len |-> 1]}

\* the buffer of len bytes handed to write_file
FileBuffer(len) == [i \in 1 .. len |-> (i + len) % 256]

\* FileSystemManager::write_file
WriteFile(inode, offset, len) ==
    /\ io.steps < MaxAllocOps
    /\ inode < Len(inodes)
    /\ inode < FSize(flouds) /\ FIsFile(flouds, inode)
    /\ disk' = AllocWrite(disk, get_inode(inodes, inode).allocation_handle,
                          FileBuffer(len), len, offset)
    /\ \E t \in Times : inodes' = [inodes EXCEPT ![inode + 1].modification_time = t]
    /\ io' = [op |-> "write_file", k |-> inode,
              handle |-> get_inode(inodes, inode).allocation_handle, size |-> len,
              offset |-> offset, data |-> FileBuffer(len), ret |-> ZeroBlk,
              steps |-> io.steps + 1]
    /\ UNCHANGED <<flouds, next_block, header, last, respected, saved, allocs>>
    /\ UNCHANGED <<bvvars, wtvars, mt, sv>>

\* FileSystemManager::read_file: data is what the call left in buffer
ReadFile(inode, offset, len) ==
    /\ io.steps < MaxAllocOps
    /\ inode < Len(inodes)
    /\ inode < FSize(flouds) /\ FIsFile(flouds, inode)
    /\ io' = [op |-> "read_file", k |-> inode,
              handle |-> get_inode(inodes, inode).allocation_handle, size |-> len,
              offset |-> offset,
              data |-> AllocRead(disk, get_inode(inodes, inode).allocation_handle,
                                 len, offset),
              ret |-> ZeroBlk, steps |-> io.steps + 1]
    /\ UNCHANGED <<fsvars, allocs>>
    /\ UNCHANGED <<bvvars, wtvars, mt, sv>>

\* FileSystemManager::save, also the whole of FileSystemManager::unmount
Save ==
    /\ \E r \in {save([flouds |-> flouds, inodes |-> inodes, next_block |-> next_block,
                        header |-> header, disk |-> disk])} :
           /\ next_block' = r.next_block
           /\ header' = r.header
           /\ disk' = r.disk
           /\ saved' = Snapshot(r, respected)
    /\ last' = [kind |-> "save", arg |-> 0, name |-> <<>>, is_folder |-> FALSE,
                mode |-> 0, thrown |-> FALSE, ret |-> 0]
    /\ UNCHANGED <<flouds, inodes, respected>>
    /\ UNCHANGED outside_fs

\* the manager is destroyed and a fresh FileSystemManager mounts the image
Mount ==
    /\ \E r \in {mount(disk)} :
           /\ flouds' = r.flouds
           /\ inodes' = r.inodes
           /\ next_block' = r.next_block
           /\ header' = r.header
           /\ disk' = r.disk
    /\ last' = [kind |-> "mount", arg |-> 0, name |-> <<>>, is_folder |-> FALSE,
                mode |-> 0, thrown |-> FALSE, ret |-> 0]
    /\ respected' = saved.respected
    /\ UNCHANGED saved
    /\ UNCHANGED outside_fs

----------------------------------------------------------------------------
(* FileSystemManager::save statement by statement *)

\* no save() is running
NoSave ==
    [pc |-> "idle", flouds_handle |-> ZeroBlk, flouds_size |-> 0,
     inode_manager_handle |-> ZeroBlk, inode_manager_size |-> 0,
     allocation_manager_handle |-> ZeroBlk, allocation_manager_size |-> 0,
     allocation_manager_new_size |-> 0]

\* BestFitAllocationStrategy::get_serialized_size of the allocator as it is
AllocGetSerializedSize(nb) == AllocSerializedSize

\* save() up to the allocator: FLOUDS and inode table are written
SaveComponents ==
    /\ sv.pc = "idle"
    /\ LET flouds_size == FSerializedSize(flouds)
           fl == SaveHandle(next_block, header.flouds_handle, header.flouds_size,
                            flouds_size)
           d1 == AllocWrite(disk, fl.handle, FSerialize(flouds), flouds_size, 0)
           inode_manager_size == ISerializedSize(inodes)
           im == SaveHandle(fl.next_block, header.inode_manager_handle,
                            header.inode_manager_size, inode_manager_size)
       IN  /\ disk' = AllocWrite(d1, im.handle, ISerialize(inodes), inode_manager_size, 0)
           /\ next_block' = im.next_block
           /\ sv' = [NoSave EXCEPT !.pc = "allocator",
                                   !.flouds_handle = fl.handle,
                                   !.flouds_size = flouds_size,
                                   !.inode_manager_handle = im.handle,
                                   !.inode_manager_size = inode_manager_size]
    /\ UNCHANGED <<flouds, inodes, header, last, respected, saved>>
    /\ UNCHANGED <<bvvars, wtvars, iovars, mt>>

\* save(): the allocator is measured, gets its space and is measured again
SaveAllocator ==
    /\ sv.pc = "allocator"
    /\ LET allocation_manager_size == AllocGetSerializedSize(next_block)
           am == SaveHandle(next_block, header.allocation_manager_handle,
                            header.allocation_manager_size, allocation_manager_size)
       IN  /\ next_block' = am.next_block
           /\ sv' = [sv EXCEPT !.pc = "loop",
                                !.allocation_manager_handle = am.handle,
                                !.allocation_manager_size = allocation_manager_size,
                                !.allocation_manager_new_size =
                                    AllocGetSerializedSize(am.next_block)]
    /\ UNCHANGED <<flouds, inodes, header, disk, last, respected, saved>>
    /\ UNCHANGED <<bvvars, wtvars, iovars, mt>>

\* the test of the loop that never leaves it while the sizes are equal
SaveLoopStep_Inverted ==
    /\ sv.pc = "loop"
    /\ sv.allocation_manager_size = sv.allocation_manager_new_size
    /\ UNCHANGED vars

\* save(): one test of the while loop.  Sizes differ: the body (resize and
\* measure again).  Sizes equal: the allocator is serialized and written,
\* the header is filled in and block 0 is written
SaveLoopStep ==
    /\ sv.pc = "loop"
    /\ IF sv.allocation_manager_size # sv.allocation_manager_new_size
       THEN \E r \in {resize(next_block, sv.allocation_manager_handle,
                              sv.allocation_manager_new_size,
                              sv.allocation_manager_new_size)} :
              /\ next_block' = r.next_block
              /\ sv' = [sv EXCEPT !.allocation_manager_handle = r.handle,
                                   !.allocation_manager_size =
                                       sv.allocation_manager_new_size,
                                   !.allocation_manager_new_size =
                                       AllocGetSerializedSize(r.next_block)]
              /\ UNCHANGED <<header, disk, saved, last>>
       ELSE \E h \in {[header EXCEPT
                          !.flouds_handle = sv.flouds_handle,
                          !.flouds_size = sv.flouds_size,
                          !.allocation_manager_handle = sv.allocation_manager_handle,
                          !.allocation_manager_size = sv.allocation_manager_size,
                          !.inode_manager_handle = sv.inode_manager_handle,
                          !.inode_manager_size = sv.inode_manager_size]} :
              /\ header' = h
              /\ disk' = write_block(
                             AllocWrite(disk, sv.allocation_manager_handle,
                                        AllocSerialize(next_block),
                                        sv.allocation_manager_size, 0),
                             ZeroBlk,
                             [o \in 0 .. HeaderBytes - 1 |-> HeaderSerialize(h)[o + 1]])
              /\ saved' = Snapshot([flouds |-> flouds, inodes |-> inodes,
                                    next_block |-> next_block], respected)
              /\ last' = [kind |-> "save", arg |-> 0, name |-> <<>>, is_folder |-> FALSE,
                          mode |-> 0, thrown |-> FALSE, ret |-> 0]
              /\ sv' = NoSave
              /\ UNCHANGED next_block
    /\ UNCHANGED <<flouds, inodes, respected>>
    /\ UNCHANGED <<bvvars, wtvars, iovars, mt>>

----------------------------------------------------------------------------
(* flouds_mkdir / flouds_create on two worker threads of                    *)
(* fuse_session_loop_mt.  No handler takes a lock; a step of a thread is    *)
(* one statement of the handler or of Flouds::insert, and the statements of *)
(* the two threads interleave.                                              *)

Threads == {1, 2}

NoRequest ==
    [pc |-> "none", parent |-> 0, name |-> <<>>, is_folder |-> FALSE, mode |-> 0,
     was_empty |-> FALSE, insert_pos |-> 0, failed |-> FALSE]

MTInitState ==
    /\ mt = [base |-> <<>>, th |-> [t \in Threads |-> NoRequest]]
    /\ sv = NoSave

\* no request has been delivered
MTIdle == \A t \in Threads : mt.th[t].pc = "none"

\* every request that was delivered has been answered
MTDone == \A t \in Threads : mt.th[t].pc = "done"

\* the kernel delivers two mkdir / create requests for existing folders
MTDeliver(p1, e1, p2, e2) ==
    /\ MTIdle
    /\ FSize(flouds) + 2 <= MaxNodes
    /\ p1 < FSize(flouds) /\ FIsFolder(flouds, p1)
    /\ p2 < FSize(flouds) /\ FIsFolder(flouds, p2)
    /\ mt' = [base |-> <<[flouds |-> flouds, inodes |-> inodes]>>,
              th |-> [t \in Threads |->
                        LET p == IF t = 1 THEN p1 ELSE p2
                            e == IF t = 1 THEN e1 ELSE e2
                        IN  [NoRequest EXCEPT !.pc = "compute", !.parent = p,
                                               !.name = e.name,
                                               !.is_folder = e.is_folder,
                                               !.mode = e.mode]]]
    /\ UNCHANGED fsvars
    /\ UNCHANGED outside_mt

\* the exception leaves add_node and the handler replies EIO
MTFail(t) == [mt EXCEPT !.th[t].pc = "done", !.th[t].failed = TRUE]

\* Flouds::insert up to the computation of insert_pos
MTCompute(t) ==
    /\ mt.th[t].pc = "compute"
    /\ LET parent_id == mt.th[t].parent
           was_empty == FIsEmptyFolder(flouds, parent_id)
           children_count == IF was_empty THEN 0 ELSE FChildrenCount(flouds, parent_id)
           types1 == IF was_empty THEN TSet(flouds.types, parent_id, 1) ELSE flouds.types
           parent_folder_index == TRank(types1, 1, parent_id) + 1
           sel == WSelect1(flouds.structure, parent_folder_index)
           insert_pos == IF sel = OutOfRange
                         THEN WSize(flouds.structure) + children_count
                         ELSE sel + children_count
       IN  IF TAccess(flouds.types, parent_id) = OutOfRange \/ children_count = OutOfRange
           THEN mt' = MTFail(t) /\ flouds' = flouds
           ELSE /\ flouds' = [flouds EXCEPT !.types = types1]
                /\ mt' = [mt EXCEPT !.th[t].pc = "insert",
                                     !.th[t].was_empty = was_empty,
                                     !.th[t].insert_pos = insert_pos]
    /\ FWordsBounded(flouds')
    /\ UNCHANGED <<inodes, next_block, header, disk, last, respected, saved>>
    /\ UNCHANGED outside_mt

\* Flouds::insert: structure->insert, names->insert, types->insert
MTInsert(t) ==
    /\ mt.th[t].pc = "insert"
    /\ LET pos == mt.th[t].insert_pos
           s1 == [flouds EXCEPT !.structure =
                     WInsert(flouds.structure, pos, IF mt.th[t].was_empty THEN 1 ELSE 0)]
           s2 == [s1 EXCEPT !.names = NInsert(flouds.names, pos, mt.th[t].name)]
           s3 == [s2 EXCEPT !.types =
                     TInsert(flouds.types, pos, IF mt.th[t].is_folder THEN 2 ELSE 0)]
       IN  IF WInsertThrows(flouds.structure, pos)
           THEN flouds' = flouds /\ mt' = MTFail(t)
           ELSE IF NInsertThrows(flouds.names, pos)
           THEN flouds' = s1 /\ mt' = MTFail(t)
           ELSE IF TInsertThrows(flouds.types, pos)
           THEN flouds' = s2 /\ mt' = MTFail(t)
           ELSE flouds' = s3 /\ mt' = [mt EXCEPT !.th[t].pc = "inode"]
    /\ FWordsBounded(flouds')
    /\ UNCHANGED <<inodes, next_block, header, disk, last, respected, saved>>
    /\ UNCHANGED outside_mt

\* add_node: insert_inode(inode_number) and inode->mode = mode.  An insert
\* behind the end of the vector is undefined: the vector stays as it is or
\* the record lands at its end
MTInode(t) ==
    /\ mt.th[t].pc = "inode"
    /\ LET pos == mt.th[t].insert_pos
       IN  IF pos <= Len(inodes)
           THEN /\ inodes' = [insert_inode(inodes, pos) EXCEPT ![pos + 1].mode = mt.th[t].mode]
                /\ mt' = [mt EXCEPT !.th[t].pc = "save"]
           ELSE /\ inodes' \in {inodes, Append(inodes, [ZeroInode EXCEPT !.mode = mt.th[t].mode])}
                /\ mt' = [mt EXCEPT !.th[t].pc = "save"]
    /\ UNCHANGED <<flouds, next_block, header, disk, last, respected, saved>>
    /\ UNCHANGED outside_mt

\* the handler replied; file_system_manager->save()
MTSave(t) ==
    /\ mt.th[t].pc = "save"
    /\ \E r \in {save([flouds |-> flouds, inodes |-> inodes, next_block |-> next_block,
                        header |-> header, disk |-> disk])} :
           /\ next_block' = r.next_block
           /\ header' = r.header
           /\ disk' = r.disk
           /\ saved' = Snapshot(r, respected)
    /\ mt' = [mt EXCEPT !.th[t].pc = "done"]
    /\ UNCHANGED <<flouds, inodes, last, respected>>
    /\ UNCHANGED outside_mt

\* add_node run from its first to its last statement on the manager m
AddNodeAlone(m, req) ==
    LET r == FInsert(m.flouds, req.parent, req.name, req.is_folder)
    IN  [flouds |-> r.f,
         inodes |-> IF r.thrown THEN m.inodes
                    ELSE [insert_inode(m.inodes, r.ret) EXCEPT ![r.ret + 1].mode = req.mode]]

\* what the callers can see of a manager: structure bits, types, names and
\* inode records in order
Visible(m) ==
    [structure |-> [i \in 1 .. WSize(m.flouds.structure) |->
                       WAccess(m.flouds.structure, i - 1)],
     types |-> [i \in 1 .. TSize(m.flouds.types) |-> TAccess(m.flouds.types, i - 1)],
     names |-> m.flouds.names,
     inodes |-> m.inodes]

----------------------------------------------------------------------------
(* The two bit vector strategies driven in lock-step *)

BVInitSizes == {0, 1, 63, 64}

\* the positions tried on vectors of size n: both ends and the word boundary
BVPositions(n) == {p \in {0, 1, 62, 63, 64, n - 1, n, n + 1} : p >= 0 /\ p <= n + 1}

BVInitState ==
    /\ abv = ACreate(0)
    /\ wbv = WCreate(0)
    /\ bvlast = [op |-> "none", pos |-> 0, val |-> 0, thrown |-> FALSE, steps |-> 0]

BVInsert(i, b) ==
    /\ bvlast.steps < MaxBVOps
    /\ abv' = IF AInsertThrows(abv, i) THEN abv ELSE AInsert(abv, i, b)
    /\ wbv' = IF WInsertThrows(wbv, i) THEN wbv ELSE WInsert(wbv, i, b)
    /\ bvlast' = [op |-> "insert", pos |-> i, val |-> b,
                  thrown |-> WInsertThrows(wbv, i), steps |-> bvlast.steps + 1]
    /\ UNCHANGED outside_bv

BVRemove(i) ==
    /\ bvlast.steps < MaxBVOps
    /\ abv' = IF ARemoveThrows(abv, i) THEN abv ELSE ARemove(abv, i)
    /\ wbv' = IF WRemoveThrows(wbv, i) THEN wbv ELSE WRemove(wbv, i)
    /\ bvlast' = [op |-> "remove", pos |-> i, val |-> 0,
                  thrown |-> WRemoveThrows(wbv, i), steps |-> bvlast.steps + 1]
    /\ UNCHANGED outside_bv

BVSet(i, b) ==
    /\ bvlast.steps < MaxBVOps
    /\ abv' = IF ASetThrows(abv, i) THEN abv ELSE ASet(abv, i, b)
    /\ wbv' = IF WSetThrows(wbv, i) THEN wbv ELSE WSet(wbv, i, b)
    /\ bvlast' = [op |-> "set", pos |-> i, val |-> b,
                  thrown |-> WSetThrows(wbv, i), steps |-> bvlast.steps + 1]
    /\ UNCHANGED outside_bv

----------------------------------------------------------------------------
(* The allocator of the mounted manager, called directly *)

\* the sizes passed to allocate and resize: nothing, one byte, two blocks
AllocSizes == {0, 1, BlockSize + 1}

\* the numbers of allocate(0) calls made before the exploration starts
ZeroRuns == {0, HiWrap - 1}

\* the (offset, length) pairs passed to write: inside the first block, across
\* the block boundary, one whole block
WriteShapes ==
    {[offset |-> 1, len |-> 2], [offset |-> BlockSize - 1, len |-> 2],
     [offset |-> 0, len |-> BlockSize]}

\* the buffer of len bytes handed to write
Buffer(len) == [i \in 1 .. len |-> (i + len) % 256]

\* the number of blocks that back an allocation of size bytes
BlocksOf(size) == (size + BlockSize - 1) \div BlockSize

\* j * b on size_t, for a block count b
BlkTimes(j, b) == Blk((j * b.hi) % HiWrap, j * b.lo)

\* k calls of allocate(size) in a row: call j returns next_block, then
\* next_block += num_blocks
AllocateRun(nb, size, k) ==
    [next_block |-> BlkAdd(nb, BlkTimes(k, NumBlocks(size))),
     allocs |-> [j \in 1 .. k |->
                   [handle |-> BlkAdd(nb, BlkTimes(j - 1, NumBlocks(size))),
                    size |-> size]]]

\* the allocations that save() made for the three components
HeaderAllocs(h) ==
    <<[handle |-> h.flouds_handle, size |-> h.flouds_size],
      [handle |-> h.inode_manager_handle, size |-> h.inode_manager_size],
      [handle |-> h.allocation_manager_handle, size |-> h.allocation_manager_size]>>

\* the allocations a caller still works with: the ones made last
Recent == {k \in 1 .. Len(allocs) : k > Len(allocs) - MaxAllocOps /\ k > 3}

NoIO ==
    [op |-> "none", k |-> 0, handle |-> ZeroBlk, size |-> 0, offset |-> 0, data |-> <<>>,
     ret |-> ZeroBlk, steps |-> 0]

IOInitState ==
    /\ allocs = <<>>
    /\ io = NoIO

\* BestFitAllocationStrategy::allocate
AllocAllocate(size) ==
    /\ io.steps < MaxAllocOps
    /\ \E a \in {allocate(next_block, size)} :
           /\ next_block' = a.next_block
           /\ allocs' = Append(allocs, [handle |-> a.handle, size |-> size])
           /\ io' = [op |-> "allocate", k |-> Len(allocs) + 1, handle |-> ZeroBlk, size |-> size, offset |-> 0,
                     data |-> <<>>, ret |-> a.handle, steps |-> io.steps + 1]
    /\ UNCHANGED disk
    /\ UNCHANGED outside_alloc

\* BestFitAllocationStrategy::resize of the allocation allocs[k]; the caller
\* keeps the handle returned
AllocResize(k, new_size) ==
    /\ io.steps < MaxAllocOps
    /\ \E r \in {resize(next_block, allocs[k].handle, allocs[k].size, new_size)} :
           /\ next_block' = r.next_block
           /\ allocs' = IF r.next_block = next_block
                         THEN [allocs EXCEPT ![k].size = new_size]
                         ELSE Append(allocs, [handle |-> r.handle, size |-> new_size])
           /\ io' = [op |-> "resize", k |-> k, handle |-> allocs[k].handle, size |-> new_size,
                     offset |-> allocs[k].size, data |-> <<>>, ret |-> r.handle,
                     steps |-> io.steps + 1]
    /\ UNCHANGED disk
    /\ UNCHANGED outside_alloc

\* BestFitAllocationStrategy::write into the blocks of the allocation allocs[k]
AllocWriteCall(k, offset, len) ==
    /\ io.steps < MaxAllocOps
    /\ offset + len <= BlocksOf(allocs[k].size) * BlockSize
    /\ disk' = AllocWrite(disk, allocs[k].handle, Buffer(len), len, offset)
    /\ io' = [op |-> "write", k |-> k, handle |-> allocs[k].handle, size |-> len,
              offset |-> offset, data |-> Buffer(len), ret |-> ZeroBlk,
              steps |-> io.steps + 1]
    /\ UNCHANGED <<next_block, allocs>>
    /\ UNCHANGED outside_alloc

\* serialize, then deserialize into a new BestFitAllocationStrategy that
\* takes the place of the old one
AllocSerDes ==
    /\ io.steps < MaxAllocOps
    /\ next_block' = AllocDeserialize(AllocSerialize(next_block), 0).val
    /\ io' = [op |-> "deserialize", k |-> 0, handle |-> ZeroBlk, size |-> 0, offset |-> 0,
              data |-> AllocSerialize(next_block), ret |-> ZeroBlk,
              steps |-> io.steps + 1]
    /\ UNCHANGED <<disk, allocs>>
    /\ UNCHANGED outside_alloc

----------------------------------------------------------------------------
(* The wavelet tree next to the plain list of its symbols *)

\* the data handed to create_two_bit_wavelet_tree: nothing, one symbol on
\* each side, one symbol of each kind, one full word
WTInitData == {<<>>, <<0, 2>>, <<0, 1, 2, 3>>, [i \in 1 .. WordBits |-> (i + i \div 3) % 4]}

\* the positions tried on a tree of size n
WTPositions(n) == {p \in {0, 1, n - 1, n, n + 1} : p >= 0}

WTInitState ==
    /\ wt = TCreate(<<>>)
    /\ wtd = <<>>
    /\ wtlast = [op |-> "none", pos |-> 0, sym |-> 0, thrown |-> FALSE, steps |-> 0]

WTInsert(i, s) ==
    /\ wtlast.steps < MaxWTOps
    /\ wt' = IF TInsertThrows(wt, i) THEN wt ELSE TInsert(wt, i, s)
    /\ wtd' = IF TInsertThrows(wt, i) THEN wtd ELSE AInsert(wtd, i, s)
    /\ wtlast' = [op |-> "insert", pos |-> i, sym |-> s,
                  thrown |-> TInsertThrows(wt, i), steps |-> wtlast.steps + 1]
    /\ UNCHANGED outside_wt

WTRemove(i) ==
    /\ wtlast.steps < MaxWTOps
    /\ wt' = IF TRemoveThrows(wt, i) THEN wt ELSE TRemove(wt, i)
    /\ wtd' = IF TRemoveThrows(wt, i) THEN wtd ELSE ARemove(wtd, i)
    /\ wtlast' = [op |-> "remove", pos |-> i, sym |-> 0,
                  thrown |-> TRemoveThrows(wt, i), steps |-> wtlast.steps + 1]
    /\ UNCHANGED outside_wt

WTSet(i, s) ==
    /\ wtlast.steps < MaxWTOps
    /\ wt' = IF TSetThrows(wt, i) THEN wt ELSE TSet(wt, i, s)
    /\ wtd' = IF TSetThrows(wt, i) THEN wtd ELSE ASet(wtd, i, s)
    /\ wtlast' = [op |-> "set", pos |-> i, sym |-> s,
                  thrown |-> TSetThrows(wt, i), steps |-> wtlast.steps + 1]
    /\ UNCHANGED outside_wt

----------------------------------------------------------------------------
(* Specifications *)

\* the manager after FileSystemManager() and mount() of an absent image
FSInitState ==
    /\ \E m \in {mount(FreshImage)} :
           /\ flouds = m.flouds
           /\ inodes = m.inodes
           /\ next_block = m.next_block
           /\ header = m.header
           /\ disk = m.disk
           /\ saved = Snapshot(m, TRUE)
    /\ last = [kind |-> "mount", arg |-> 0, name |-> <<>>, is_folder |-> FALSE,
                mode |-> 0, thrown |-> FALSE, ret |-> 0]
    /\ respected = TRUE

Init == FSInitState /\ BVInitState /\ WTInitState /\ IOInitState /\ MTInitState

Next ==
    \/ \E p \in 0 .. MaxNodes, e \in Entries : AddNode(p, e.name, e.is_folder, e.mode)
    \/ \E v \in 0 .. MaxNodes : RemoveNode(v)

Spec == Init /\ [][Next]_vars

InitBV ==
    /\ FSInitState
    /\ WTInitState
    /\ IOInitState
    /\ MTInitState
    /\ \E n \in BVInitSizes :
         /\ abv = ACreate(n)
         /\ wbv = WCreate(n)
         /\ bvlast = [op |-> "create", pos |-> n, val |-> 0, thrown |-> FALSE, steps |-> 0]

NextBV ==
    \/ \E i \in BVPositions(Len(abv)), b \in {0, 1} : BVInsert(i, b)
    \/ \E i \in BVPositions(Len(abv)) : BVRemove(i)
    \/ \E i \in BVPositions(Len(abv)), b \in {0, 1} : BVSet(i, b)

SpecBV == InitBV /\ [][NextBV]_vars

\* the callers that only insert and remove
NextInsRem ==
    \/ \E i \in BVPositions(Len(abv)), b \in {0, 1} : BVInsert(i, b)
    \/ \E i \in BVPositions(Len(abv)) : BVRemove(i)

SpecInsRem == InitBV /\ [][NextInsRem]_vars

InitWT ==
    /\ FSInitState
    /\ BVInitState
    /\ IOInitState
    /\ MTInitState
    /\ \E data \in WTInitData :
         /\ wt = TCreate(data)
         /\ wtd = data
         /\ wtlast = [op |-> "create", pos |-> Len(data), sym |-> 0, thrown |-> FALSE,
                      steps |-> 0]

NextWT ==
    \/ \E i \in WTPositions(Len(wtd)), s \in 0 .. 3 : WTInsert(i, s)
    \/ \E i \in WTPositions(Len(wtd)) : WTRemove(i)
    \/ \E i \in WTPositions(Len(wtd)), s \in 0 .. 3 : WTSet(i, s)

SpecWT == InitWT /\ [][NextWT]_vars

\* the allocator of the manager that mounted an absent image, after a run of
\* allocate(0) calls
InitAlloc ==
    /\ \E m \in {mount(FreshImage)}, k \in ZeroRuns :
         \E run \in {AllocateRun(m.next_block, 0, k)} :
           /\ flouds = m.flouds
           /\ inodes = m.inodes
           /\ next_block = run.next_block
           /\ header = m.header
           /\ disk = m.disk
           /\ saved = Snapshot(m, TRUE)
           /\ allocs = HeaderAllocs(m.header) \o run.allocs
    /\ last = [kind |-> "mount", arg |-> 0, name |-> <<>>, is_folder |-> FALSE,
                mode |-> 0, thrown |-> FALSE, ret |-> 0]
    /\ respected = TRUE
    /\ io = NoIO
    /\ MTInitState
    /\ BVInitState
    /\ WTInitState

NextAlloc ==
    \/ \E n \in AllocSizes : AllocAllocate(n)
    \/ \E k \in Recent, n \in AllocSizes : AllocResize(k, n)
    \/ \E k \in Recent, w \in WriteShapes : AllocWriteCall(k, w.offset, w.len)
    \/ AllocSerDes

SpecAlloc == InitAlloc /\ [][NextAlloc]_vars

\* the manager with files: made, sized, written and read
NextIO ==
    \/ \E e \in Entries :
          /\ FSize(flouds) < MaxFSNodes /\ ~e.is_folder
          /\ AddNode(0, e.name, e.is_folder, e.mode)
    \/ \E v \in 0 .. MaxFSNodes - 1, n \in FileSizes : SetFileSize(v, n)
    \/ \E v \in 0 .. MaxFSNodes - 1, w \in FileShapes : WriteFile(v, w.offset, w.len)
    \/ \E v \in 0 .. MaxFSNodes - 1, w \in FileShapes : ReadFile(v, w.offset, w.len)

SpecIO == Init /\ [][NextIO]_vars

\* the tree is built by one request at a time; then two requests arrive
\* together
NextMT ==
    \/ \E p \in 0 .. MaxNodes - 1, e \in Entries :
          /\ MTIdle /\ FSize(flouds) + 2 < MaxNodes
          /\ p < FSize(flouds)
          /\ AddNode(p, e.name, e.is_folder, e.mode)
    \/ \E p1, p2 \in 0 .. MaxNodes - 1, e1, e2 \in Entries : MTDeliver(p1, e1, p2, e2)
    \/ \E t \in Threads : MTCompute(t)
    \/ \E t \in Threads : MTInsert(t)
    \/ \E t \in Threads : MTInode(t)
    \/ \E t \in Threads : MTSave(t)

SpecMT == Init /\ [][NextMT]_vars

\* the image holds what the manager holds
Clean ==
    saved = Snapshot([flouds |-> flouds, inodes |-> inodes, next_block |-> next_block],
                     respected)

\* the manager with its image, driven as the FUSE handlers drive it: a
\* request that the handler found legal changes nodes or a file size and is
\* followed by save(); the process can end at any point, and a fresh
\* manager mounts the image
NextFS ==
    \/ \E p \in 0 .. MaxFSNodes - 1, e \in Entries :
          /\ Clean /\ FSize(flouds) < MaxFSNodes /\ p < FSize(flouds)
          /\ AddNode(p, e.name, e.is_folder, e.mode)
    \/ \E v \in 1 .. MaxFSNodes - 1 :
          /\ Clean /\ v < FSize(flouds) /\ TAccess(flouds.types, v) \in {0, 2}
          /\ RemoveNode(v)
    \/ \E v \in 0 .. MaxFSNodes - 1, n \in FileSizes : Clean /\ SetFileSize(v, n)
    \/ Save
    \/ Mount

SpecFS == Init /\ [][NextFS]_vars

\* the most write_block calls a save() of the trees explored makes
MaxSaveWrites == 4

\* no save() was interrupted
Running == last.kind # "interrupted_save"

\* a file is created, resized and saved; any save() may be interrupted
NextCrash ==
    \/ \E p \in 0 .. MaxFSNodes - 1, e \in Entries :
          /\ Running /\ Clean /\ FSize(flouds) < MaxFSNodes /\ p < FSize(flouds)
          /\ AddNode(p, e.name, e.is_folder, e.mode)
    \/ \E v \in 0 .. MaxFSNodes - 1, n \in FileSizes : Running /\ SetFileSize(v, n)
    \/ Running /\ Save
    \/ Running /\ Mount
    \/ \E n \in 0 .. MaxSaveWrites - 1 : Running /\ InterruptedSave(n)

SpecCrash == Init /\ [][NextCrash]_vars

\* calls of one caller; save() runs statement by statement and the caller
\* waits for it
NextSave ==
    \/ \E p \in 0 .. MaxFSNodes - 1, e \in Entries :
          /\ sv.pc = "idle" /\ Clean /\ FSize(flouds) < MaxFSNodes /\ p < FSize(flouds)
          /\ AddNode(p, e.name, e.is_folder, e.mode)
    \/ \E v \in 0 .. MaxFSNodes - 1, n \in FileSizes : sv.pc = "idle" /\ SetFileSize(v, n)
    \/ sv.pc = "idle" /\ Mount
    \/ SaveComponents
    \/ SaveAllocator
    \/ SaveLoopStep

\* a save() that was called runs on
SpecSave ==
    /\ Init /\ [][NextSave]_vars
    /\ WF_vars(SaveAllocator) /\ WF_vars(SaveLoopStep)

----------------------------------------------------------------------------
(* The FUSE bridge: one request at a time, each handler run to its end *)

\* the requests one session of the bridge serves
MaxRequests == 2

\* the manager the handlers reach through file_system_manager
Manager ==
    [flouds |-> flouds, inodes |-> inodes, next_block |-> next_block,
     header |-> header, disk |-> disk]

\* the record of a request for node that carries no file data
Asked(op, node) == [NoIO EXCEPT !.op = op, !.k = node]

\* the handler leaves the manager as m and has answered the kernel with an
\* error (err) or with ret; called_save tells whether it went through save();
\* request is the record of what was asked and what was handed back
Reply(m, kind, node, err, ret, called_save, request) ==
    /\ io.steps < MaxRequests
    /\ io' = [request EXCEPT !.steps = io.steps + 1]
    /\ flouds' = m.flouds
    /\ inodes' = m.inodes
    /\ next_block' = m.next_block
    /\ header' = m.header
    /\ disk' = m.disk
    /\ saved' = IF called_save THEN Snapshot(m, respected) ELSE saved
    /\ last' = [kind |-> kind, arg |-> node, name |-> <<>>, is_folder |-> FALSE,
                mode |-> 0, thrown |-> err, ret |-> ret]
    /\ UNCHANGED <<respected, allocs, bvvars, wtvars, mt, sv>>

\* the look-up loop of flouds_unlink and flouds_rmdir: the first child of
\* parent_node that carries the name, OutOfRange when the loop ends without one
LookupChild(f, parent_node, name) ==
    LET num_children == FChildrenCount(f, parent_node)
        hits == {i \in 0 .. num_children - 1 :
                    FGetName(f, FChild(f, parent_node, i)) = name}
    IN  IF hits = {} THEN OutOfRange
        ELSE FChild(f, parent_node, CHOOSE i \in hits : \A j \in hits : i <= j)

\* flouds_setattr with to_set a subset of {MODE, SIZE}
flouds_setattr(node, to_set, st_mode, st_size) ==
    /\ node < FSize(flouds) /\ node < Len(inodes)
    /\ \E r \in {IF "SIZE" \in to_set /\ FIsFile(flouds, node)
                 THEN resize(next_block, get_inode(inodes, node).allocation_handle,
                             get_inode(inodes, node).size, st_size)
                 ELSE [handle |-> get_inode(inodes, node).allocation_handle,
                       next_block |-> next_block]} :
           /\ r.next_block.lo <= MaxBlocks
           /\ r.next_block.hi <= MaxZeroAllocs
           /\ Reply(save([Manager EXCEPT
                            !.inodes = [inodes EXCEPT
                                ![node + 1].mode =
                                    IF "MODE" \in to_set THEN st_mode ELSE @,
                                ![node + 1].allocation_handle = r.handle,
                                ![node + 1].size =
                                    IF "SIZE" \in to_set /\ FIsFile(flouds, node)
                                    THEN st_size ELSE @],
                            !.next_block = r.next_block]),
                    "flouds_setattr", node, FALSE, 0, TRUE, Asked("flouds_setattr", node))

\* what flouds_read answers on the manager m
ReadReply(m, node, size, off) ==
    IF ~FIsFile(m.flouds, node) THEN [err |-> TRUE, data |-> <<>>]
    ELSE LET inode == get_inode(m.inodes, node)
         IN  IF off >= inode.size THEN [err |-> FALSE, data |-> <<>>]
             ELSE LET n == IF off + size > inode.size THEN inode.size - off ELSE size
                  IN  [err |-> FALSE,
                       data |-> AllocRead(m.disk, inode.allocation_handle, n, off)]

\* flouds_read
flouds_read(node, size, off) ==
    /\ node < FSize(flouds) /\ node < Len(inodes)
    /\ \E r \in {ReadReply(Manager, node, size, off)} :
           Reply(Manager, "flouds_read", node, r.err, Len(r.data), FALSE,
                 [Asked("flouds_read", node) EXCEPT
                      !.handle = get_inode(inodes, node).allocation_handle,
                      !.size = size, !.offset = off, !.data = r.data])

\* flouds_write without its save()
flouds_write_NoSave(node, size, off) ==
    /\ node < FSize(flouds) /\ node < Len(inodes)
    /\ IF ~FIsFile(flouds, node)
       THEN Reply(Manager, "flouds_write", node, TRUE, 0, FALSE,
                  Asked("flouds_write", node))
       ELSE \E t \in Times :
                Reply([Manager EXCEPT
                           !.disk = AllocWrite(disk,
                                               get_inode(inodes, node).allocation_handle,
                                               FileBuffer(size), size, off),
                           !.inodes = [inodes EXCEPT ![node + 1].modification_time = t]],
                      "flouds_write", node, FALSE, size, FALSE,
                      [Asked("flouds_write", node) EXCEPT
                           !.handle = get_inode(inodes, node).allocation_handle,
                           !.size = size, !.offset = off, !.data = FileBuffer(size)])

\* flouds_write: write_file, the reply, save()
flouds_write(node, size, off) ==
    /\ node < FSize(flouds) /\ node < Len(inodes)
    /\ IF ~FIsFile(flouds, node)
       THEN Reply(Manager, "flouds_write", node, TRUE, 0, FALSE,
                  Asked("flouds_write", node))
       ELSE \E t \in Times :
                Reply(save([Manager EXCEPT
                                !.disk = AllocWrite(disk,
                                             get_inode(inodes, node).allocation_handle,
                                             FileBuffer(size), size, off),
                                !.inodes = [inodes EXCEPT
                                                ![node + 1].modification_time = t]]),
                      "flouds_write", node, FALSE, size, TRUE,
                      [Asked("flouds_write", node) EXCEPT
                           !.handle = get_inode(inodes, node).allocation_handle,
                           !.size = size, !.offset = off, !.data = FileBuffer(size)])

\* flouds_mkdir
flouds_mkdir(parent_node, name, mode) ==
    /\ parent_node < FSize(flouds) /\ FIsFolder(flouds, parent_node)
    /\ FSize(flouds) < MaxFSNodes
    /\ \E r \in {FInsert(flouds, parent_node, name, TRUE)} :
           /\ FWordsBounded(r.f)
           /\ IF r.thrown
              THEN Reply([Manager EXCEPT !.flouds = r.f], "flouds_mkdir", parent_node,
                         TRUE, 0, FALSE, Asked("flouds_mkdir", parent_node))
              ELSE Reply(save([Manager EXCEPT
                                   !.flouds = r.f,
                                   !.inodes = [insert_inode(inodes, r.ret)
                                                   EXCEPT ![r.ret + 1].mode = mode]]),
                         "flouds_mkdir", parent_node, FALSE, r.ret + 1, TRUE, Asked("flouds_mkdir", parent_node))

\* flouds_create
flouds_create(parent_node, name, mode) ==
    /\ parent_node < FSize(flouds) /\ FIsFolder(flouds, parent_node)
    /\ FSize(flouds) < MaxFSNodes
    /\ \E r \in {FInsert(flouds, parent_node, name, FALSE)} :
           /\ FWordsBounded(r.f)
           /\ IF r.thrown
              THEN Reply([Manager EXCEPT !.flouds = r.f], "flouds_create", parent_node,
                         TRUE, 0, FALSE, Asked("flouds_create", parent_node))
              ELSE Reply(save([Manager EXCEPT
                                   !.flouds = r.f,
                                   !.inodes = [insert_inode(inodes, r.ret)
                                                   EXCEPT ![r.ret + 1].mode = mode]]),
                         "flouds_create", parent_node, FALSE, r.ret + 1, TRUE, Asked("flouds_create", parent_node))

\* flouds_unlink
flouds_unlink(parent_node, name) ==
    /\ parent_node < FSize(flouds) /\ FIsFolder(flouds, parent_node)
    /\ \E child_node \in {LookupChild(flouds, parent_node, name)} :
           IF child_node = OutOfRange \/ FIsFolder(flouds, child_node)
           THEN Reply(Manager, "flouds_unlink", parent_node, TRUE, 0, FALSE, Asked("flouds_unlink", parent_node))
           ELSE \E r \in {FRemove(flouds, child_node)} :
                    /\ FWordsBounded(r.f)
                    /\ IF r.thrown
                       THEN Reply([Manager EXCEPT !.flouds = r.f], "flouds_unlink",
                                  parent_node, TRUE, 0, FALSE, Asked("flouds_unlink", parent_node))
                       ELSE Reply(save([Manager EXCEPT
                                            !.flouds = r.f,
                                            !.inodes = remove_inode(inodes, child_node)]),
                                  "flouds_unlink", parent_node, FALSE, 0, TRUE, Asked("flouds_unlink", parent_node))

\* flouds_rmdir
flouds_rmdir(parent_node, name) ==
    /\ parent_node < FSize(flouds) /\ FIsFolder(flouds, parent_node)
    /\ \E child_node \in {LookupChild(flouds, parent_node, name)} :
           IF \/ child_node = OutOfRange
              \/ ~FIsFolder(flouds, child_node)
              \/ ~FIsEmptyFolder(flouds, child_node)
           THEN Reply(Manager, "flouds_rmdir", parent_node, TRUE, 0, FALSE, Asked("flouds_rmdir", parent_node))
           ELSE \E r \in {FRemove(flouds, child_node)} :
                    /\ FWordsBounded(r.f)
                    /\ IF r.thrown
                       THEN Reply([Manager EXCEPT !.flouds = r.f], "flouds_rmdir",
                                  parent_node, TRUE, 0, FALSE, Asked("flouds_rmdir", parent_node))
                       ELSE Reply(save([Manager EXCEPT
                                            !.flouds = r.f,
                                            !.inodes = remove_inode(inodes, child_node)]),
                                  "flouds_rmdir", parent_node, FALSE, 0, TRUE, Asked("flouds_rmdir", parent_node))

\* the requests the kernel sends to the single-threaded session loop, and the
\* mount of a restarted bridge
NextBridge ==
    \/ \E v \in 0 .. MaxFSNodes - 1, to_set \in {{"MODE"}, {"SIZE"}},
          e \in Entries, n \in FileSizes : flouds_setattr(v, to_set, e.mode, n)
    \/ \E v \in 0 .. MaxFSNodes - 1, s \in FileShapes : flouds_read(v, s.len, s.offset)
    \/ \E v \in 0 .. MaxFSNodes - 1, s \in FileShapes : flouds_write(v, s.len, s.offset)
    \/ \E p \in 0 .. MaxFSNodes - 1, e \in Entries : flouds_mkdir(p, e.name, e.mode)
    \/ \E p \in 0 .. MaxFSNodes - 1, e \in Entries : flouds_create(p, e.name, e.mode)
    \/ \E p \in 0 .. MaxFSNodes - 1, e \in Entries : flouds_unlink(p, e.name)
    \/ \E p \in 0 .. MaxFSNodes - 1, e \in Entries : flouds_rmdir(p, e.name)
    \/ Mount

SpecBridge == Init /\ [][NextBridge]_vars

----------------------------------------------------------------------------
(* Vocabulary of the claims *)

Nodes(f) == 0 .. FSize(f) - 1

\* the children of folder v, in child order
ChildList(f, v) == [k \in 1 .. FChildrenCount(f, v) |-> FChild(f, v, k - 1)]

\* the index after an insertion at position r of the node that was at index i
UpFrom(r, i) == IF r <= i THEN i + 1 ELSE i

\* the index after the removal of position v of the node that was at index i
DownFrom(v, i) == IF v < i THEN i - 1 ELSE i

\* s without its elements equal to v
\* the most components of the paths looked up
MaxPathLen == 2

\* the names of the entries, and a name that no entry has
PathNames == {e.name : e \in Entries} \cup {<<100>>}

\* the component lists of the paths looked up
Paths == UNION {[1 .. n -> PathNames] : n \in 0 .. MaxPathLen}

RECURSIVE PathString(_)
\* "/" for the root, else "/" and the component for each component
PathString(comps) ==
    IF comps = <<>> THEN <<Slash>>
    ELSE IF Len(comps) = 1 THEN <<Slash>> \o comps[1]
    ELSE PathString(SubSeq(comps, 1, Len(comps) - 1)) \o <<Slash>> \o comps[Len(comps)]

RECURSIVE Resolve(_, _, _)
\* the node reached from v by the components: the first child of that name
\* at each step, OutOfRange when v is no folder or has no such child
Resolve(f, v, comps) ==
    IF comps = <<>> THEN v
    ELSE IF ~FIsFolder(f, v) THEN OutOfRange
    ELSE LET named == {k \in 1 .. Len(ChildList(f, v)) :
                          FGetName(f, ChildList(f, v)[k]) = Head(comps)}
         IN  IF named = {} THEN OutOfRange
             ELSE Resolve(f, ChildList(f, v)[CHOOSE k \in named : \A l \in named : k <= l],
                          Tail(comps))

Without(s, v) == SelectSeq(s, LAMBDA x : x # v)

Added == last.kind = "add_node" /\ ~last.thrown

Removed == last.kind = "remove_node" /\ ~last.thrown

\* the call recorded in last' was legal in the state before it
LegalAdd == respected /\ respected' /\ last'.kind = "add_node" /\ ~last'.thrown

LegalRemove == respected /\ respected' /\ last'.kind = "remove_node" /\ ~last'.thrown

\* the call recorded in last' returned normally
AddReturned == last'.kind = "add_node" /\ ~last'.thrown

RemoveReturned == last'.kind = "remove_node" /\ ~last'.thrown

\* the block numbers [handle, handle + ceil(size / block_size)) of an allocation
BlockRange(a) == {BlkAdd(a.handle, Blk(0, d)) : d \in 0 .. BlocksOf(a.size) - 1}

\* the step is a call of write, of resize on the allocator
WriteReturned == io'.op = "write" /\ io'.steps = io.steps + 1

ResizeReturned == io'.op = "resize" /\ io'.steps = io.steps + 1

\* the step is a call of read_file
ReadFileReturned == io'.op = "read_file" /\ io'.steps = io.steps + 1

----------------------------------------------------------------------------
(* C1: after calls that respect the preconditions, every child of a folder *)
(* has that folder as its parent: parent(child(v, k)) = v for every folder *)
(* v and every k < children_count(v).                                      *)
C1_ParentOfChild ==
    respected =>
        \A v \in Nodes(flouds) :
            FIsFolder(flouds, v) =>
                \A k \in 0 .. FChildrenCount(flouds, v) - 1 :
                    FParent(flouds, FChild(flouds, v, k)) = v

\* a nested folder with a child, reached by a removal
C1_Witness ==
    /\ respected /\ Removed
    /\ \E v \in Nodes(flouds) \ {0} :
         FIsFolder(flouds, v) /\ FChildrenCount(flouds, v) >= 1

(* C2: after calls that respect the preconditions, children_count(v) = 0    *)
(* exactly for the empty folders (types[v] = 2), and a non-empty folder     *)
(* (types[v] = 1) has at least one child.                                   *)
C2_EmptyIffNoChildren ==
    respected =>
        \A v \in Nodes(flouds) :
            /\ (FChildrenCount(flouds, v) = 0) <=> FIsEmptyFolder(flouds, v)
            /\ TAccess(flouds.types, v) = 1 => FChildrenCount(flouds, v) >= 1

\* an empty folder, a non-empty folder and a file side by side
C2_Witness ==
    /\ respected /\ (Added \/ Removed)
    /\ \E u, v, w \in Nodes(flouds) :
         /\ TAccess(flouds.types, u) = 2 /\ FChildrenCount(flouds, u) = 0
         /\ TAccess(flouds.types, v) = 1 /\ v # 0
         /\ TAccess(flouds.types, w) = 0

(* C3: after mount and after every add_node / remove_node, structure,       *)
(* types, names and the inode table have the same length.                   *)
C3_SameLength ==
    /\ WSize(flouds.structure) = TSize(flouds.types)
    /\ TSize(flouds.types) = NSize(flouds.names)
    /\ NSize(flouds.names) = Len(inodes)

(* C4: insert(parent, name, is_folder) on a folder with c children returns  *)
(* v with children_count(parent) = c + 1 and child(parent, c) = v           *)
(* afterwards; v carries the name and is an empty folder or a file as       *)
(* asked; the first c children are the same nodes, names and kinds, in the  *)
(* same order.                                                              *)
C4_InsertAppendsChild ==
    [][LegalAdd =>
        LET p == last'.arg
            v == last'.ret
            c == FChildrenCount(flouds, p)
        IN  /\ FChildrenCount(flouds', p) = c + 1
            /\ FChild(flouds', p, c) = v
            /\ FGetName(flouds', v) = last'.name
            /\ IF last'.is_folder THEN FIsEmptyFolder(flouds', v)
               ELSE FIsFile(flouds', v)
            /\ \A k \in 0 .. c - 1 :
                 /\ FChild(flouds', p, k) = UpFrom(v, FChild(flouds, p, k))
                 /\ FGetName(flouds', FChild(flouds', p, k))
                      = FGetName(flouds, FChild(flouds, p, k))
                 /\ TAccess(flouds'.types, FChild(flouds', p, k))
                      = TAccess(flouds.types, FChild(flouds, p, k))]_vars

\* a second child was added in the middle of the sequence, in front of the
\* child of its sibling
C4_Witness ==
    /\ respected /\ Added
    /\ FChildrenCount(flouds, last.arg) >= 2
    /\ last.ret < FSize(flouds) - 1

(* C5: remove(v) of a non-root file or empty folder removes exactly v: each *)
(* folder keeps its children, in order, except that v leaves the list of    *)
(* its parent p; p becomes an empty folder with no children exactly when v  *)
(* was its only child; every other node keeps its name and kind.            *)
C5_RemoveExactlyV ==
    [][LegalRemove =>
        LET v == last'.arg
            p == FParent(flouds, v)
        IN  /\ \A u \in Nodes(flouds) \ {v} :
                 FIsFolder(flouds, u) =>
                    LET kept == Without(ChildList(flouds, u), v)
                    IN  /\ FIsFolder(flouds', DownFrom(v, u))
                        /\ ChildList(flouds', DownFrom(v, u))
                             = [k \in 1 .. Len(kept) |-> DownFrom(v, kept[k])]
            /\ (FChildrenCount(flouds, p) = 1)
                 <=> (/\ TAccess(flouds'.types, DownFrom(v, p)) = 2
                      /\ FChildrenCount(flouds', DownFrom(v, p)) = 0)
            /\ \A i \in Nodes(flouds) \ {v} :
                 /\ FGetName(flouds', DownFrom(v, i)) = FGetName(flouds, i)
                 /\ i # p => TAccess(flouds'.types, DownFrom(v, i))
                               = TAccess(flouds.types, i)]_vars

\* the first of several children of a nested folder was removed
C5_Witness ==
    /\ respected /\ Removed
    /\ \E u \in Nodes(flouds) \ {0} :
         /\ FChildrenCount(flouds, u) >= 1
         /\ FChild(flouds, u, 0) = last.arg

(* C6: remove_node(v) signals an error when v is the root or a non-empty    *)
(* folder, and leaves the FLOUDS sequences and the inode table unchanged.   *)
C6_RemoveRejected ==
    [][(/\ respected
        /\ last'.kind = "remove_node"
        /\ last'.arg \in Nodes(flouds)
        /\ (last'.arg = 0 \/ TAccess(flouds.types, last'.arg) = 1))
       => (last'.thrown /\ flouds' = flouds /\ inodes' = inodes)]_vars

(* C7: after save() and a mount() of the same image by a fresh manager, the *)
(* structure bits, the types, the names in order, the inode records and     *)
(* next_block are those the manager held when the save completed; this      *)
(* includes the image that mount() creates for an absent file.              *)
C7_SaveMountRoundTrip ==
    last.kind = "mount" =>
        /\ [i \in 1 .. WSize(flouds.structure) |-> WAccess(flouds.structure, i - 1)]
             = saved.structure
        /\ [i \in 1 .. TSize(flouds.types) |-> TAccess(flouds.types, i - 1)]
             = saved.types
        /\ flouds.names = saved.names
        /\ inodes = saved.inodes
        /\ next_block = saved.next_block

\* mounted again: a file of two blocks under the root, and an allocator
\* that went through allocate(0)
C7_Witness ==
    /\ last.kind = "mount"
    /\ FSize(flouds) >= 2
    /\ \E i \in 1 .. Len(inodes) : inodes[i].size > BlockSize
    /\ next_block.hi > 0

(* C8: the inode record travels with its node: after add_node returned r,   *)
(* the record and the name of old node i are at index i, or i + 1 when      *)
(* r <= i; after remove_node(v), those of old node i # v are at index i, or *)
(* i - 1 when v < i.                                                        *)
C8_InodeTravels ==
    [][/\ AddReturned =>
            \A i \in Nodes(flouds) :
                /\ get_inode(inodes', UpFrom(last'.ret, i)) = get_inode(inodes, i)
                /\ FGetName(flouds', UpFrom(last'.ret, i)) = FGetName(flouds, i)
       /\ RemoveReturned =>
            \A i \in Nodes(flouds) \ {last'.arg} :
                /\ get_inode(inodes', DownFrom(last'.arg, i)) = get_inode(inodes, i)
                /\ FGetName(flouds', DownFrom(last'.arg, i)) = FGetName(flouds, i)]_vars

\* a node was added in front of nodes whose inode records differ
C8_Witness ==
    /\ Added
    /\ last.ret + 2 < FSize(flouds)
    /\ get_inode(inodes, last.ret + 1).mode # get_inode(inodes, last.ret + 2).mode

(* C9: inode numbers stay stable: after add_node / remove_node of another   *)
(* node, the number i of a surviving node still denotes that node (its      *)
(* name and its inode record).                                              *)
C9_StableNumbers ==
    [][/\ LegalAdd =>
            \A i \in Nodes(flouds) :
                /\ get_inode(inodes', i) = get_inode(inodes, i)
                /\ FGetName(flouds', i) = FGetName(flouds, i)
       /\ LegalRemove =>
            \A i \in Nodes(flouds) \ {last'.arg} :
                /\ i \in Nodes(flouds')
                /\ get_inode(inodes', i) = get_inode(inodes, i)
                /\ FGetName(flouds', i) = FGetName(flouds, i)]_vars

(* C10: driven by the same insert / remove / set calls, the array and the   *)
(* word bit vector agree on size, access, rank0, rank1, select0 and select1 *)
(* (same value, or both fail).                                              *)
C10_StrategiesAgree ==
    /\ ASize(abv) = WSize(wbv)
    /\ \A i \in 0 .. Len(abv) :
         /\ AAccess(abv, i) = WAccess(wbv, i)
         /\ ARank0(abv, i) = WRank0(wbv, i)
         /\ ARank1(abv, i) = WRank1(wbv, i)
    /\ \A n \in 0 .. Len(abv) + 1 :
         /\ ASelect0(abv, n) = WSelect0(wbv, n)
         /\ ASelect1(abv, n) = WSelect1(wbv, n)

(* C11: in every state of the word bit vector, select_b(n) is the position  *)
(* of the n-th b-bit (a position below size) when 1 <= n <= number of       *)
(* b-bits, and fails with out_of_range when n = 0 or n exceeds that number. *)
C11_SelectContract ==
    \A b \in {0, 1} :
        LET hits == {i \in 0 .. WSize(wbv) - 1 : WAccess(wbv, i) = b}
        IN  \A n \in 0 .. WSize(wbv) + 1 :
                WSelect(wbv, n, b) = IF n >= 1 /\ n <= Cardinality(hits)
                                     THEN NthOf(hits, n)
                                     ELSE OutOfRange

(* C12: in every state of the wavelet tree reached by insert, remove and    *)
(* set, |root| = |left| + |right|, |left| is the number of 0-bits of root   *)
(* and |right| the number of its 1-bits.                                    *)
C12_ChildSizes ==
    /\ WSize(wt.root) = WSize(wt.left) + WSize(wt.right)
    /\ WSize(wt.left) = Cardinality({i \in 0 .. WSize(wt.root) - 1 : WAccess(wt.root, i) = 0})
    /\ WSize(wt.right) = Cardinality({i \in 0 .. WSize(wt.root) - 1 : WAccess(wt.root, i) = 1})

\* a child bit vector shrank to size 0 and grew again, the other is not empty
C12_Witness ==
    /\ wtlast.op \in {"insert", "set"} /\ ~wtlast.thrown
    /\ WSize(wt.left) >= 1 /\ WSize(wt.right) >= 1
    /\ \E bv \in {wt.left, wt.right} : Len(bv.words) > (WSize(bv) + 63) \div 64

(* C13: with every insert, remove and set mirrored on the plain list D,     *)
(* access(i) = D[i]; rank(s, i) is the number of j <= i with D[j] = s; and  *)
(* select(s, k) is the index of the k-th s in D, for 1 <= k <= number of s. *)
C13_AgreesWithList ==
    /\ TSize(wt) = Len(wtd)
    /\ \A i \in 0 .. Len(wtd) - 1 :
         /\ TAccess(wt, i) = wtd[i + 1]
         /\ \A s \in 0 .. 3 :
              TRank(wt, s, i) = Cardinality({j \in 0 .. i : wtd[j + 1] = s})
    /\ \A s \in 0 .. 3 :
         LET occ == {j \in 0 .. Len(wtd) - 1 : wtd[j + 1] = s}
         IN  \A k \in 1 .. Cardinality(occ) : TSelect(wt, s, k) = NthOf(occ, k)

\* a list that crosses the word boundary and holds every symbol, after a set
C13_Witness ==
    /\ wtlast.op = "set" /\ ~wtlast.thrown
    /\ Len(wtd) > WordBits
    /\ \A s \in 0 .. 3 : \E j \in 1 .. Len(wtd) : wtd[j] = s

(* C14: across allocate, resize and serialize / deserialize of the          *)
(* allocator, no handle is handed out twice, the block ranges               *)
(* [handle, handle + ceil(size / block_size)) of distinct allocations are   *)
(* pairwise disjoint and none contains block 0.                             *)
C14_DisjointAllocations ==
    LET used == {k \in 1 .. Len(allocs) : allocs[k].size > 0}
    IN  /\ Cardinality({allocs[k].handle : k \in 1 .. Len(allocs)}) = Len(allocs)
        /\ \A i, j \in used :
             i # j => BlockRange(allocs[i]) \cap BlockRange(allocs[j]) = {}
        /\ \A i \in used : ZeroBlk \notin BlockRange(allocs[i])

(* C15: after write(h, buf, len, off), read(h, out, len, off) returns the   *)
(* len bytes of buf, and the bytes of the blocks of h outside               *)
(* [off, off + len) that had been written before keep their values.         *)
C15_ReadAfterWrite ==
    [][WriteReturned =>
        LET h == io'.handle
            total == BlocksOf(allocs[io'.k].size) * BlockSize
        IN  /\ AllocRead(disk', h, io'.size, io'.offset) = io'.data
            /\ \E before \in {AllocRead(disk, h, total, 0)},
                  after \in {AllocRead(disk', h, total, 0)} :
                 \A o \in 0 .. total - 1 :
                    (/\ (o < io'.offset \/ o >= io'.offset + io'.size)
                     /\ before[o + 1] # Unwritten)
                    => after[o + 1] = before[o + 1]]_vars

\* a write across the block boundary into a block that holds earlier bytes
C15_Witness ==
    /\ io.op = "write" /\ io.offset = BlockSize - 1 /\ io.size = 2
    /\ AllocRead(disk, io.handle, 1, 1) # <<Unwritten>>

(* C16: resize keeps the content: the bytes written to h below              *)
(* min(old_size, new_size) are read back from the handle that               *)
(* resize(h, old_size, new_size) returns, when the size grows and when it   *)
(* shrinks.                                                                 *)
C16_ResizeKeepsContent ==
    [][ResizeReturned =>
        LET n == Min(io'.offset, io'.size)
        IN  \E before \in {AllocRead(disk, io'.handle, n, 0)},
               after \in {AllocRead(disk', io'.ret, n, 0)} :
              \A o \in 1 .. n : before[o] # Unwritten => after[o] = before[o]]_vars

(* C17: read_file(v, buf, len, off) returns no byte beyond the size of the  *)
(* file: nothing when off >= inode.size, and inode.size - off bytes when    *)
(* off + len > inode.size.                                                  *)
C17_ReadWithinSize ==
    [][ReadFileReturned =>
        LET size == get_inode(inodes, io'.k).size
        IN  Len(io'.data) = IF io'.offset >= size THEN 0
                            ELSE Min(io'.size, size - io'.offset)]_vars

\* C18: requests reach the bridge one at a time, also when the session runs
\* its multi-threaded loop: once two mkdir / create requests that arrived
\* together are answered, the tree and the inode table are what handling
\* one request to its end and then the other would have left.
C18_RequestsSerialized ==
    (MTDone /\ \A t \in Threads : ~mt.th[t].failed) =>
        LET b == mt.base[1]
            now == Visible([flouds |-> flouds, inodes |-> inodes])
        IN  \/ now = Visible(AddNodeAlone(AddNodeAlone(b, mt.th[1]), mt.th[2]))
            \/ now = Visible(AddNodeAlone(AddNodeAlone(b, mt.th[2]), mt.th[1]))

\* C19: a call of add_node or remove_node (and with it Flouds::insert or
\* Flouds::remove) that signals an error has changed nothing: structure,
\* types, names and the inode table are what they were before the call.
C19_ErrorsBeforeMutation ==
    [][last'.thrown => (flouds' = flouds /\ inodes' = inodes)]_vars

\* C20: the last successful save is recoverable: when a later save() is
\* interrupted after any prefix of its block writes, the manager that
\* mounts the image holds the structure bits, types, names, inode records
\* and next_block of the last save() that completed.
C20_LastSaveRecoverable ==
    last.kind = "interrupted_save" =>
        /\ ~last.thrown
        /\ Snapshot([flouds |-> flouds, inodes |-> inodes, next_block |-> next_block],
                    saved.respected) = saved

\* C21: path(str) is the node reached from the root by taking, for every
\* component, the first child of that name; it fails when a component is
\* absent, also when the node reached so far is a file.
C21_PathResolves ==
    respected =>
        \A comps \in Paths : FPath(flouds, PathString(comps)) = Resolve(flouds, 0, comps)

\* C22: save() terminates: once the allocator has been measured, the loop
\* that resizes and measures again is left, the allocator is serialized and
\* block 0 is written, so that the image holds what the manager holds.
C22_SaveTerminates == (sv.pc = "loop") ~> (sv.pc = "idle" /\ last.kind = "save" /\ Clean)

\* save() is in its loop for an allocator that went through allocate(0)
C22_Witness == sv.pc = "loop" /\ next_block.hi > 0

(* C23: every bridge request that changes the filesystem and is answered    *)
(* without an error (setattr, write, mkdir, create, unlink, rmdir) has gone *)
(* through save() when its handler returns: before the next request is     *)
(* taken, mounting the image gives the tree, the inode table and the       *)
(* allocator position the manager holds.                                   *)
MutatingRequests ==
    {"flouds_setattr", "flouds_write", "flouds_mkdir", "flouds_create",
     "flouds_unlink", "flouds_rmdir"}

C23_SavedBeforeReturn ==
    (last.kind \in MutatingRequests /\ ~last.thrown) =>
        /\ Clean
        /\ Snapshot(mount(disk), respected) = Snapshot(Manager, respected)

C23_Witness == last.kind = "flouds_write" /\ ~last.thrown /\ io.size > 0
(* C24 as stated: for every non-root node v, with f = rank1(structure, v)  *)
(* the number of first-child marks at positions <= v, parent(v) is         *)
(* select(types, 1, f), the position of the f-th non-empty folder.         *)
C24_ParentIsFthFolder ==
    respected =>
        \A v \in Nodes(flouds) \ {0} :
            FParent(flouds, v) = TSelect(flouds.types, 1, WRank1(flouds.structure, v))

(* C24 amended: the root's own mark is among the f marks, so parent(v) is  *)
(* the position of the (f - 1)-th non-empty folder, counting from 1:       *)
(* select(types, 1, f - 1).                                                 *)
C24_ParentIsFolderBeforeMarks ==
    respected =>
        \A v \in Nodes(flouds) \ {0} :
            LET f == Cardinality({i \in 0 .. v : WAccess(flouds.structure, i) = 1})
                folders == {i \in Nodes(flouds) : TAccess(flouds.types, i) = 1}
            IN  /\ f >= 2
                /\ Cardinality(folders) >= f - 1
                /\ FParent(flouds, v) = NthOf(folders, f - 1)

C24_Witness ==
    /\ respected
    /\ \E v \in Nodes(flouds) \ {0} :
           /\ FParent(flouds, v) > 0
           /\ Cardinality({i \in 0 .. v : WAccess(flouds.structure, i) = 1}) >= 3

(* C25: allocate(size) returns the current next_block and advances        *)
(* next_block by exactly ceil(size / block_size) blocks for every          *)
(* size >= 0, size = 0 included, in allocate itself and when resize hands  *)
(* the request on to allocate.                                              *)
C25_AllocateAdvancesByCeil ==
    [][(\/ io'.op = "allocate"
        \/ (io'.op = "resize" /\ next_block' # next_block)) =>
           /\ io'.ret = next_block
           /\ next_block' = BlkAdd(next_block, Blk(0, BlocksOf(io'.size)))]_vars

(* C26: under insert(i, b) and remove(i) only, the word bit vector behaves *)
(* like the plain list, also at and across the 64-bit word boundary:       *)
(* insert with i <= size grows the vector by one, puts b at i and moves    *)
(* the bits at positions >= i up by one; remove with i < size shrinks it   *)
(* by one and moves the bits at positions > i down by one; insert at       *)
(* i > size and remove at i >= size fail and leave the vector as it was;   *)
(* afterwards access, rank0 and rank1 at every valid position equal those  *)
(* of the array bit vector.                                                 *)
C26_InsertRemoveLikeList ==
    [][LET n == WSize(wbv)
           i == bvlast'.pos
       IN  /\ bvlast'.op = "insert" =>
                IF i > n THEN bvlast'.thrown /\ wbv' = wbv
                ELSE /\ ~bvlast'.thrown
                     /\ WSize(wbv') = n + 1
                     /\ WAccess(wbv', i) = bvlast'.val
                     /\ \A j \in 0 .. n - 1 :
                            WAccess(wbv', IF j >= i THEN j + 1 ELSE j) = WAccess(wbv, j)
           /\ bvlast'.op = "remove" =>
                IF i >= n THEN bvlast'.thrown /\ wbv' = wbv
                ELSE /\ ~bvlast'.thrown
                     /\ WSize(wbv') = n - 1
                     /\ \A j \in 0 .. n - 1 :
                            j # i => WAccess(wbv', IF j > i THEN j - 1 ELSE j)
                                        = WAccess(wbv, j)
           /\ WSize(wbv') = ASize(abv')
           /\ \A p \in 0 .. WSize(wbv') - 1 :
                  /\ WAccess(wbv', p) = AAccess(abv', p)
                  /\ WRank0(wbv', p) = ARank0(abv', p)
                  /\ WRank1(wbv', p) = ARank1(abv', p)]_vars

C26_Witness ==
    /\ bvlast.op = "remove" /\ ~bvlast.thrown /\ bvlast.pos < WordBits - 1
    /\ WSize(wbv) = WordBits
    /\ WAccess(wbv, WordBits - 1) = 1

(* C27: after create_flouds and insert / remove calls that respect their    *)
(* preconditions, structure holds one 1-bit per non-empty folder (type 1)  *)
(* plus the root's own mark, and for k >= 2 the k-th 1-bit is the first    *)
(* child of the (k - 1)-th non-empty folder.                                *)
C27_MarksMatchFolders ==
    respected =>
        LET marks == {i \in Nodes(flouds) : WAccess(flouds.structure, i) = 1}
            folders == {i \in Nodes(flouds) : TAccess(flouds.types, i) = 1}
        IN  /\ Cardinality(marks) = Cardinality(folders) + 1
            /\ \A k \in 2 .. Cardinality(marks) :
                   /\ NthOf(marks, k) = FChild(flouds, NthOf(folders, k - 1), 0)
                   /\ FParent(flouds, NthOf(marks, k)) = NthOf(folders, k - 1)

C27_Witness ==
    /\ respected
    /\ last.kind = "remove_node" /\ ~last.thrown
    /\ Cardinality({i \in Nodes(flouds) : WAccess(flouds.structure, i) = 1}) >= 3

(* C28: after insert / remove calls that respect their preconditions every *)
(* non-root node v has parent(v) < v; so the parent index that             *)
(* Flouds::remove computes before it deletes v is the index of the same    *)
(* node after the deletion.                                                 *)
C28_ParentBeforeChild ==
    [][respected' =>
         /\ \A v \in Nodes(flouds') \ {0} :
                FParent(flouds', v) >= 0 /\ FParent(flouds', v) < v
         /\ (last'.kind = "remove_node" /\ ~last'.thrown) =>
                LET v == last'.arg
                    parent_index == FParent(flouds, v)
                IN  /\ parent_index < v
                    /\ FGetName(flouds', parent_index) = FGetName(flouds, parent_index)
                    /\ FIsFolder(flouds', parent_index)
                    /\ \A c \in Nodes(flouds) \ {0, v} :
                           FParent(flouds, c) = parent_index
                               => FParent(flouds', IF c > v THEN c - 1 ELSE c) = parent_index]_vars

C28_Witness ==
    /\ respected
    /\ last.kind = "remove_node" /\ ~last.thrown
    /\ \E v \in Nodes(flouds) \ {0} : FParent(flouds, v) > 0

\* the blocks that write(handle, buf, size, off) writes
BlocksWritten(handle, size, off) ==
    {BlkAdd(handle, Blk(0, d)) : d \in (off \div BlockSize) .. ((off + size - 1) \div BlockSize)}

(* C29: a write request to a file, after any requests, modifies neither   *)
(* block 0, nor a block of the ranges the header records for FLOUDS, the   *)
(* inode table and the allocator, nor a block of another file: the data    *)
(* goes through a handle other than 0 and stays inside the range allocated *)
(* to the file.                                                             *)
C29_WriteStaysInFile ==
    [][(last'.kind = "flouds_write" /\ ~last'.thrown) =>
         LET v == io'.k
             written == BlocksWritten(io'.handle, io'.size, io'.offset)
             own == [handle |-> get_inode(inodes, v).allocation_handle,
                     size |-> get_inode(inodes, v).size]
         IN  /\ io'.handle # ZeroBlk
             /\ ZeroBlk \notin written
             /\ \A k \in 1 .. 3 : written \cap BlockRange(HeaderAllocs(header)[k]) = {}
             /\ written \subseteq BlockRange(own)
             /\ \A u \in Nodes(flouds) \ {v} :
                    FIsFile(flouds, u) =>
                        written \cap BlockRange([handle |-> get_inode(inodes, u).allocation_handle,
                                                 size |-> get_inode(inodes, u).size]) = {}]_vars

(* C30: after a write request of n bytes at off that was answered without *)
(* an error, the size of the inode is at least off + n and a read request  *)
(* for [off, off + n) returns the n bytes written, also for a new file     *)
(* that no setattr has resized.                                             *)
C30_ReadBackThroughBridge ==
    (last.kind = "flouds_write" /\ ~last.thrown) =>
        /\ get_inode(inodes, io.k).size >= io.offset + io.size
        /\ ReadReply(Manager, io.k, io.size, io.offset)
              = [err |-> FALSE, data |-> io.data]

====
